---------------------------- MODULE Spec2Model ----------------------------
(***************************************************************************)
(* A model of the bitmap visualiser of hpec-dao:                           *)
(*   - logTxSize, the size classifier of generateVisualization;            *)
(*   - MondrianLayout, the row/slot square packer of generateVisualization;*)
(*   - parseMondrianFromImage, the flood-fill reconstruction, in its two   *)
(*     copies (Bitmap3DViewer and preload3DData).                          *)
(* JavaScript objects that are shared by reference (a slot is held by its  *)
(* row's list and by its row's map) are modelled by a heap of slot records *)
(* addressed by reference numbers.                                         *)
(***************************************************************************)
EXTENDS Integers, Sequences, FiniteSets, TLC

VARIABLES
    layout,      \* the MondrianLayout object: width, rowOffset, rows, txMap, heap
    positions,   \* the squares returned by place, in call order
    calls,       \* the sizes passed to place, in call order
    gridSquare,  \* gridSquare[k]: the field tx.gridSquare of the k-th item
    txValues,    \* the summed output values of the transactions being classified
    maxTier,     \* the second argument of logTxSize
    txSizes,     \* the sizes logTxSize has returned, in call order
    routine,     \* which copy of parseMondrianFromImage runs: "viewer" or "preload"
    canvas,      \* the decoded image: width, height, pixels (row-major colours)
    args,        \* its arguments: is imageDataUrl truthy, and what txList is
    promise,     \* the promise it returns: state, value, and what resolved it
    warnings,    \* the console.warn calls made so far
    capHits,     \* how often the two caps cut the parse short, and where the scan stopped
    discovered,  \* the pixels (x, y) of the scan loops at which the flood fills started
    limits,      \* the two safety limits of parseMondrianFromImage, as scaled to the images
    loop,        \* where img.onload stands when its loops are followed pass by pass
    bitmapImage, \* the image generateVisualization returned (its canvas, as the PNG keeps it)
    global3DCache, \* the Map of line 29: cache key -> squares
    chain,       \* chain[b]: the txList getBlockData returns for the bitmap b, by its values
    scenes,      \* the runs of initScene and preload3DData started so far, in order
    page,        \* the React state of BitmapOCIApp that handleLookup writes, and its timers
    lookups,     \* the calls of handleLookup started so far, in order: where each stands
    wallet,      \* the wallet state of BitmapOCIApp (lines 487-496) and its pending timers
    connects,    \* the wallet connect attempts started so far, in order: where each stands
    proxy,       \* the API route's module state: its cache Map, and the clock Date.now() reads
    requests     \* the calls of GET started so far, in order: where each stands, its response

layoutVars == <<layout, positions, calls, gridSquare>>
classifyVars == <<txValues, maxTier, txSizes>>
parseVars == <<routine, canvas, args, promise, warnings, capHits, discovered, limits, loop>>
renderVars == <<bitmapImage>>
cacheVars == <<global3DCache, chain, scenes>>
appVars == <<page, lookups, wallet, connects, proxy, requests>>

vars == <<layout, positions, calls, gridSquare, txValues, maxTier, txSizes,
          routine, canvas, args, promise, warnings, capHits, discovered, limits, loop,
          bitmapImage, global3DCache, chain, scenes, page, lookups,
          wallet, connects, proxy, requests>>

-----------------------------------------------------------------------------
(* Bounds of the model.                                                    *)

MaxWidth == 4     \* layouts of width 1..MaxWidth
MaxItems == 5     \* at most MaxItems calls of place on one layout
MaxExp == 8       \* classified values run up to 10^MaxExp + 1
MaxCap == 3       \* finite caps passed to logTxSize run up to MaxCap
ImgPixels == 9    \* the decoded images hold at most ImgPixels pixels
\* The two safety limits of parseMondrianFromImage are 10,000 squares (lines 68
\* and 1282) and 1,000,000 pixels (lines 89 and 1299).  The model keeps the
\* comparisons of the code and scales the two numbers to the images above.
SquareCap == 3    \* stands for the 10,000 of squares.length >= 10000
PixelCap == 5     \* stands for the 1,000,000 of pixelsInThisSquare > 1000000
\* The images generateVisualization paints are larger than the images above,
\* and the two limits are scaled to them by two numbers of their own.
MaxTx == 4              \* generateVisualization is given at most MaxTx transactions
RenderSquareCap == 6    \* stands for the 10,000 where the painted images are parsed
RenderPixelCap == 40    \* stands for the 1,000,000 where the painted images are parsed

-----------------------------------------------------------------------------
(* Helpers.                                                                *)

Max(a, b) == IF a >= b THEN a ELSE b
Min(a, b) == IF a <= b THEN a ELSE b

\* Array.prototype.splice(at, 0, e) with 1-based at
InsertAt(s, at, e) == SubSeq(s, 1, at - 1) \o <<e>> \o SubSeq(s, at, Len(s))
\* Array.prototype.splice(at, 1) with 1-based at
RemoveAt(s, at) == SubSeq(s, 1, at - 1) \o SubSeq(s, at + 1, Len(s))

\* delete obj[k]
DeleteKey(m, k) == [j \in DOMAIN m \ {k} |-> m[j]]
\* obj[k] = v
SetKey(m, k, v) == [j \in DOMAIN m \cup {k} |-> IF j = k THEN v ELSE m[j]]

-----------------------------------------------------------------------------
(* logTxSize (lines 715-719).  A cap is a number or Infinity:               *)
(* [fin |-> TRUE, n |-> k] is the number k, Infinity is [fin |-> FALSE].    *)

Infinity == [fin |-> FALSE, n |-> 0]
Finite(k) == [fin |-> TRUE, n |-> k]

\* Math.ceil(Math.log10(value)) for an integer value >= 1
RECURSIVE CeilLog10(_)
RECURSIVE FloorLog10Plus1(_)
\* a mutant of CeilLog10: the logarithm is rounded down and one is added, which
\* differs from rounding up at the exact powers of ten
FloorLog10Plus1(value) ==
    IF value < 10 THEN 1 ELSE 1 + FloorLog10Plus1(value \div 10)

CeilLog10(value) ==
    IF value <= 1 THEN 0 ELSE 1 + CeilLog10((value + 9) \div 10)

\* max || Infinity: a falsy cap (0) is replaced by Infinity
OrInfinity(max) == IF max.fin /\ max.n = 0 THEN Infinity ELSE max

\* Math.min(cap, m) for a cap that may be Infinity
MathMin(cap, m) == IF cap.fin THEN Min(cap.n, m) ELSE m

\* a mutant of clampTier: the floor Math.max(1, scale) is left out
clampTierNoFloor(max, scale) == MathMin(OrInfinity(max), scale)

\* line 718
clampTier(max, scale) == MathMin(OrInfinity(max), Max(1, scale))

logTxSize(value, max) ==
    IF value = 0 THEN 1
    ELSE LET scale == CeilLog10(value) - 5
         IN clampTier(max, scale)

-----------------------------------------------------------------------------
(* MondrianLayout.  A layout value L is a record                            *)
(*   width, rowOffset, rows, txMap : the fields of the object               *)
(*   heap : the slot objects; heap[ref] = [x, y, r]; reference 0 is         *)
(*          undefined.                                                       *)
(*   missed : for the record, how often removeSlot was given a slot that    *)
(*          its row's list does not hold (indexOf = -1)                     *)
(* A row is [y, slots, map, max]; slots is a sequence of references and     *)
(* map takes a column x to a reference.                                      *)

MondrianLayout(w) ==
    [width |-> w, rowOffset |-> 0, rows |-> <<>>, txMap |-> <<>>, heap |-> <<>>,
     missed |-> 0]

RowIdx(L, y) == y - L.rowOffset + 1

hasRow(L, y) == RowIdx(L, y) \in 1..Len(L.rows)

getRow(L, y) == L.rows[RowIdx(L, y)]

getSlot(L, x, y) ==
    IF hasRow(L, y) /\ x \in DOMAIN getRow(L, y).map
    THEN getRow(L, y).map[x]
    ELSE 0

addRow(L) ==
    [L EXCEPT !.rows = Append(@, [y |-> Len(L.rows) + L.rowOffset,
                                  slots |-> <<>>, map |-> <<>>, max |-> 0])]

\* the index at which addSlot splices a slot of column x into the list
InsertIndex(L, slots, x) ==
    LET later == {i \in 1..Len(slots) : L.heap[slots[i]].x > x}
    IN IF later = {} THEN 0 ELSE CHOOSE i \in later : \A j \in later : i <= j

\* addSlot(slot) for the fresh object slot = [x, y, r]; the result is the
\* layout and the reference returned (0: undefined)
addSlot(L, slot) ==
    IF slot.r <= 0 THEN [L |-> L, ref |-> 0]
    ELSE IF getSlot(L, slot.x, slot.y) # 0
    THEN LET existingSlot == getSlot(L, slot.x, slot.y)
         IN [L |-> IF slot.r > L.heap[existingSlot].r
                   THEN [L EXCEPT !.heap[existingSlot].r = slot.r]
                   ELSE L,
             ref |-> existingSlot]
    ELSE IF ~hasRow(L, slot.y) THEN [L |-> L, ref |-> 0]
    ELSE LET ref == Len(L.heap) + 1
             H == Append(L.heap, slot)
             row == getRow(L, slot.y)
             insertAt == InsertIndex(L, row.slots, slot.x)
             newSlots == IF insertAt = 0 THEN Append(row.slots, ref)
                         ELSE InsertAt(row.slots, insertAt, ref)
         IN [L |-> [L EXCEPT !.heap = H,
                             !.rows[RowIdx(L, slot.y)].slots = newSlots,
                             !.rows[RowIdx(L, slot.y)].map = SetKey(@, slot.x, ref)],
             ref |-> ref]

\* row.slots.indexOf(slot), 1-based; 0 when the slot is not in the list
IndexOf(slots, ref) ==
    LET at == {i \in 1..Len(slots) : slots[i] = ref}
    IN IF at = {} THEN 0 ELSE CHOOSE i \in at : \A j \in at : i <= j

\* a mutant of removeSlot: the slot leaves the list and stays in the map
removeSlotListOnly(L, ref) ==
    LET slot == L.heap[ref]
    IN IF ~hasRow(L, slot.y) THEN L
       ELSE LET row == getRow(L, slot.y)
                indexOf == IndexOf(row.slots, ref)
            IN IF indexOf = 0 THEN L
               ELSE [L EXCEPT !.rows[RowIdx(L, slot.y)].slots = RemoveAt(row.slots, indexOf)]

\* removeSlot(slot): splice(indexOf, 1) with indexOf = -1 removes the last
\* element of the list
removeSlot(L, ref) ==
    LET slot == L.heap[ref]
    IN IF ~hasRow(L, slot.y) THEN L
       ELSE LET row == getRow(L, slot.y)
                indexOf == IndexOf(row.slots, ref)
                newSlots == IF indexOf # 0 THEN RemoveAt(row.slots, indexOf)
                            ELSE IF Len(row.slots) = 0 THEN row.slots
                            ELSE RemoveAt(row.slots, Len(row.slots))
            IN [L EXCEPT !.rows[RowIdx(L, slot.y)].map = DeleteKey(@, slot.x),
                         !.rows[RowIdx(L, slot.y)].slots = newSlots,
                         !.missed = IF indexOf = 0 THEN @ + 1 ELSE @]


\* a mutant of collides: no slot of the square's rows is taken for a collision
collidesNever(testSlot, left, right) == FALSE

\* the test of line 787: testSlot meets the columns [left, right) of the square
collides(testSlot, left, right) ==
    ~(testSlot.x + testSlot.r < left \/ testSlot.x >= right)

\* the references of row.slots that collide, in list order (lines 785-792)
collisionsOf(L, row, left, right) ==
    SelectSeq(row.slots, LAMBDA ref : collides(L.heap[ref], left, right))

RECURSIVE maxExcessOf(_, _, _, _)
maxExcessOf(L, collisions, i, slotRight) ==
    IF i > Len(collisions) THEN 0
    ELSE LET testSlot == L.heap[collisions[i]]
             excess == Max(0, testSlot.x + testSlot.r - slotRight)
         IN Max(excess, maxExcessOf(L, collisions, i + 1, slotRight))

\* lines 796-799: every colliding slot is cut to end at the square's left edge
RECURSIVE shrinkCollisions(_, _, _, _)
shrinkCollisions(L, collisions, i, slotX) ==
    IF i > Len(collisions) THEN L
    ELSE LET ref == collisions[i]
             newR == slotX - L.heap[ref].x
             L1 == [L EXCEPT !.heap[ref].r = newR]
             L2 == IF newR <= 0 THEN removeSlot(L1, ref) ELSE L1
         IN shrinkCollisions(L2, collisions, i + 1, slotX)

\* lines 783-799: a row that exists, crossed by the square
fillExistingRow(L, slot, squareWidth, rowIndex) ==
    LET s == L.heap[slot]
        left == s.x
        right == s.x + squareWidth
        row == getRow(L, rowIndex)
        collisions == collisionsOf(L, row, left, right)
        maxExcess == maxExcessOf(L, collisions, 1, s.x + s.r)
        L1 == IF right < L.width /\ right \notin DOMAIN row.map
              THEN addSlot(L, [x |-> right, y |-> rowIndex,
                               r |-> s.r - squareWidth + maxExcess]).L
              ELSE L
    IN shrinkCollisions(L1, collisions, 1, s.x)

\* lines 801-803: a row the square runs past the last row into
fillNewRow(L, slot, squareWidth, rowIndex) ==
    LET s == L.heap[slot]
        right == s.x + squareWidth
        L1 == addRow(L)
        L2 == IF s.x > 0 THEN addSlot(L1, [x |-> 0, y |-> rowIndex, r |-> s.x]).L
              ELSE L1
    IN IF right < L.width
       THEN addSlot(L2, [x |-> right, y |-> rowIndex, r |-> L.width - right]).L
       ELSE L2

\* the loop of lines 780-805
RECURSIVE fillRows(_, _, _, _)
fillRows(L, slot, squareWidth, rowIndex) ==
    IF rowIndex >= L.heap[slot].y + squareWidth THEN L
    ELSE fillRows(IF hasRow(L, rowIndex)
                  THEN fillExistingRow(L, slot, squareWidth, rowIndex)
                  ELSE fillNewRow(L, slot, squareWidth, rowIndex),
                  slot, squareWidth, rowIndex + 1)

\* the loop of lines 816-826: the rest of a clipped slot, cut into squares
RECURSIVE splitRemaining(_, _, _, _, _)
splitRemaining(L, x, y, w, h) ==
    IF ~(w > 0 /\ h > 0) THEN L
    ELSE IF w <= h
    THEN splitRemaining(addSlot(L, [x |-> x, y |-> y, r |-> w]).L, x, y + w, w, h - w)
    ELSE splitRemaining(addSlot(L, [x |-> x, y |-> y, r |-> h]).L, x + h, y, w - h, h)

\* a mutant of reachesInto: the test of the rows is the wrong way round, so a
\* slot of a row above that reaches down into the square is not clipped
reachesIntoNever(testSlot, slot, squareWidth) ==
    /\ testSlot.x < slot.x + squareWidth
    /\ testSlot.x + testSlot.r > slot.x
    /\ testSlot.y + testSlot.r < slot.y

\* the test of line 811: a slot of a row above reaches into the square
reachesInto(testSlot, slot, squareWidth) ==
    /\ testSlot.x < slot.x + squareWidth
    /\ testSlot.x + testSlot.r > slot.x
    /\ testSlot.y + testSlot.r >= slot.y

\* lines 812-826 for one slot of a row above
clipAbove(L, ref, slot) ==
    LET testSlot == L.heap[ref]
        oldSlotWidth == testSlot.r
        newR == L.heap[slot].y - testSlot.y
        L1 == [L EXCEPT !.heap[ref].r = newR]
        L2 == IF newR <= 0 THEN removeSlot(L1, ref) ELSE L1
    IN splitRemaining(L2, testSlot.x + newR, testSlot.y, oldSlotWidth - newR, newR)

\* the loop of lines 809-828: the index runs over the list as it is being changed
RECURSIVE scanAbove(_, _, _, _, _)
scanAbove(L, slot, squareWidth, rowIndex, i) ==
    LET row == getRow(L, rowIndex)
    IN IF i > Len(row.slots) THEN L
       ELSE scanAbove(IF reachesInto(L.heap[row.slots[i]], L.heap[slot], squareWidth)
                      THEN clipAbove(L, row.slots[i], slot)
                      ELSE L,
                      slot, squareWidth, rowIndex, i + 1)

\* the loop of lines 806-830
RECURSIVE fillAbove(_, _, _, _)
fillAbove(L, slot, squareWidth, rowIndex) ==
    IF rowIndex >= L.heap[slot].y THEN L
    ELSE fillAbove(IF hasRow(L, rowIndex)
                   THEN scanAbove(L, slot, squareWidth, rowIndex, 1)
                   ELSE L,
                   slot, squareWidth, rowIndex + 1)

\* fillSlot(slot, squareWidth): the layout and the square returned
fillSlot(L, slot, squareWidth) ==
    LET s == L.heap[slot]
        L1 == removeSlot(L, slot)
        L2 == fillRows(L1, slot, squareWidth, s.y)
        L3 == fillAbove(L2, slot, squareWidth, Max(0, s.y - squareWidth))
    IN [L |-> L3, square |-> [x |-> s.x, y |-> s.y, r |-> squareWidth]]

\* a mutant of fits: the comparison is off by one, a slot one column too
\* narrow is taken
fitsOffByOne(testSlot, size) == testSlot.r >= size - 1

\* a mutant of fits: a slot of exactly the size is passed over
fitsStrictly(testSlot, size) == testSlot.r > size

\* the test of line 842
fits(testSlot, size) == testSlot.r >= size

\* a mutant of scanSlots: slotIndex is not reset to 0 after a row (line 848)
RECURSIVE scanSlotsNoReset(_, _, _, _)
scanSlotsNoReset(L, size, rowIndex, slotIndex) ==
    IF rowIndex > Len(L.rows) THEN 0
    ELSE IF slotIndex > Len(L.rows[rowIndex].slots)
    THEN scanSlotsNoReset(L, size, rowIndex + 1, slotIndex)
    ELSE IF fits(L.heap[L.rows[rowIndex].slots[slotIndex]], size)
    THEN L.rows[rowIndex].slots[slotIndex]
    ELSE scanSlotsNoReset(L, size, rowIndex, slotIndex + 1)

\* the scan of lines 838-850: the reference of the slot the scan stops at, or 0
RECURSIVE scanSlots(_, _, _, _)
scanSlots(L, size, rowIndex, slotIndex) ==
    IF rowIndex > Len(L.rows) THEN 0
    ELSE IF slotIndex > Len(L.rows[rowIndex].slots)
    THEN scanSlots(L, size, rowIndex + 1, 1)
    ELSE IF fits(L.heap[L.rows[rowIndex].slots[slotIndex]], size)
    THEN L.rows[rowIndex].slots[slotIndex]
    ELSE scanSlots(L, size, rowIndex, slotIndex + 1)

\* new Array(this.width).fill(null); 0 stands for null
NullRow(w) == [i \in 1..w |-> 0]

\* setTxMapCell(coord, tx)
setTxMapCell(L, coord, tx) ==
    LET offsetY == coord.y - L.rowOffset
        grown == IF Len(L.txMap) <= offsetY
                 THEN L.txMap \o [i \in 1..(offsetY + 1 - Len(L.txMap)) |-> NullRow(L.width)]
                 ELSE L.txMap
        cells == grown[offsetY + 1]
        wide == IF coord.x + 1 > Len(cells)
                THEN cells \o [i \in 1..(coord.x + 1 - Len(cells)) |-> 0]
                ELSE cells
    IN [L EXCEPT !.txMap = [grown EXCEPT ![offsetY + 1] = [wide EXCEPT ![coord.x + 1] = tx]]]

\* the inner loop of lines 857-861, over y, for the column x of the square
RECURSIVE markColumn(_, _, _, _, _)
markColumn(L, square, tx, x, y) ==
    IF y >= square.r THEN L
    ELSE CHOOSE marked \in
             {markColumn(cell, square, tx, x, y + 1) :
                 cell \in {setTxMapCell(L, [x |-> square.x + x, y |-> square.y + y], tx)}} :
             TRUE

\* the loops of lines 857-861: the outer loop, over x
RECURSIVE markSquare(_, _, _, _)
markSquare(L, square, tx, x) ==
    IF square.r <= 0 \/ x >= square.r THEN L
    ELSE CHOOSE marked \in
             {markSquare(column, square, tx, x + 1) :
                 column \in {markColumn(L, square, tx, x, 0)}} :
             TRUE

\* place(tx, size): the layout after the call and the square returned
place(L, tx, size) ==
    LET found == scanSlots(L, size, 1, 1)
        filled == IF found # 0 THEN fillSlot(L, found, size)
                  ELSE LET L1 == addRow(L)
                           row == L1.rows[Len(L1.rows)]
                           added == addSlot(L1, [x |-> 0, y |-> row.y, r |-> L1.width])
                       IN fillSlot(added.L, added.ref, size)
    IN CHOOSE placed \in
           {[L |-> markSquare(f.L, f.square, tx, 0), square |-> f.square] : f \in {filled}} :
           TRUE

-----------------------------------------------------------------------------
(* parseMondrianFromImage: the copy of Bitmap3DViewer (lines 39-138) and the *)
(* copy inside preload3DData (lines 1254-1343).                               *)
(* A colour is [r, g, b]; a canvas is [width, height, pixels] with the pixel  *)
(* (x, y) at pixels[y * width + x + 1]; a coordinate is <<x, y>>.  The set    *)
(* visited holds coordinates: the key `${x}-${y}` of the code is one string   *)
(* per coordinate.                                                             *)

Background == [r |-> 26, g |-> 26, b |-> 26]     \* '#1a1a1a', line 888
TileColor == [r |-> 255, g |-> 140, b |-> 0]     \* 'rgb(255, 140, 0)', line 892

\* the test of lines 64, 99, 1279 and 1306
isTileColor(p) == p.r > 200 /\ p.g > 100 /\ p.g < 180 /\ p.b < 50

pixelAt(cv, x, y) == cv.pixels[y * cv.width + x + 1]

outOfCanvas(cv, cx, cy) == cx < 0 \/ cx >= cv.width \/ cy < 0 \/ cy >= cv.height

\* a mutant of pushNeighbours: the pixel to the left is not pushed
pushNeighboursNoLeft(stack, cx, cy) ==
    stack \o << <<cx + 1, cy>>, <<cx, cy + 1>>, <<cx, cy - 1>> >>

\* the four pushes of lines 106-109 and 1313-1316
pushNeighbours(stack, cx, cy) ==
    stack \o << <<cx + 1, cy>>, <<cx - 1, cy>>, <<cx, cy + 1>>, <<cx, cy - 1>> >>

\* a mutant of overPixelCap: the fill is cut when the counter reaches the cap
overPixelCapAtCap(pixelsInThisSquare) == pixelsInThisSquare >= limits.pixels

\* the test of lines 89 and 1299
overPixelCap(pixelsInThisSquare) == pixelsInThisSquare > limits.pixels

\* a mutant of atSquareCap: the comparison is off by one, one square more is
\* taken before the scan stops
atSquareCapOffByOne(squares) == Len(squares) > limits.squares

\* the test of lines 68 and 1282
atSquareCap(squares) == Len(squares) >= limits.squares

\* a mutant of makeSquare: txIndex counts the squares from 1
makeSquareOneBased(cv, box, squares) ==
    LET width == box.maxX - box.minX + 1
        height == box.maxY - box.minY + 1
    IN [x |-> box.minX + box.maxX - cv.width,
        z |-> box.minY + box.maxY - cv.height,
        width |-> width,
        depth |-> height,
        height |-> Max(width, height),
        txIndex |-> Len(squares) + 1]

\* the record of lines 121-128 and 1327-1334.  scale = 0.15; x and z are kept
\* in units of scale / 2, width and depth in units of scale, and height is
\* squareSize in units of scale / 2 (the code adds 2 to it)
makeSquare(cv, box, squares) ==
    LET width == box.maxX - box.minX + 1
        height == box.maxY - box.minY + 1
    IN [x |-> box.minX + box.maxX - cv.width,
        z |-> box.minY + box.maxY - cv.height,
        width |-> width,
        depth |-> height,
        height |-> Max(width, height),
        txIndex |-> Len(squares)]

\* the state of one flood fill: the stack, the bounding box, the counter, and
\* cut = TRUE when the loop was left by the break
startFill(x, y) ==
    [stack |-> << <<x, y>> >>, minX |-> x, maxX |-> x, minY |-> y, maxY |-> y,
     pixelsInThisSquare |-> 0, cut |-> FALSE]

growBox(f, cx, cy) ==
    [f EXCEPT !.minX = Min(@, cx), !.maxX = Max(@, cx),
              !.minY = Min(@, cy), !.maxY = Max(@, cy)]

\* a mutant of Pop: the entry stays on the stack
PopNothing(stack) == stack

\* stack.pop(), lines 82 and 1293: the stack without its last entry
Pop(stack) == SubSeq(stack, 1, Len(stack) - 1)

\* the state of one scan: visited, squares, the warnings made, the number of
\* fills left by the break, and in stoppedAt the pixel at which the scan
\* returned at the square cap (<<>>: it ran to the end); starts lists the
\* pixels x, y of the scan loops at which a flood fill was started
startScan ==
    [visited |-> {}, squares |-> <<>>, warnings |-> <<>>, cuts |-> 0, stoppedAt |-> <<>>,
     starts |-> <<>>]

\* one pass of the while loop of lines 81-111 (viewer) on the fill and the
\* visited set; the loop is over when the stack is empty or the break was taken
fillStepViewer(cv, st) ==
    LET f == st.fill
        visited == st.visited
    IN IF f.stack = <<>> \/ f.cut THEN st
       ELSE LET cx == f.stack[Len(f.stack)][1]
                cy == f.stack[Len(f.stack)][2]
                popped == [f EXCEPT !.stack = Pop(@)]
            IN IF <<cx, cy>> \in visited THEN [fill |-> popped, visited |-> visited]
               ELSE IF outOfCanvas(cv, cx, cy) THEN [fill |-> popped, visited |-> visited]
               ELSE LET counted == [popped EXCEPT !.pixelsInThisSquare = @ + 1]
                    IN IF overPixelCap(counted.pixelsInThisSquare)
                       THEN [fill |-> [counted EXCEPT !.cut = TRUE], visited |-> visited]
                       ELSE IF isTileColor(pixelAt(cv, cx, cy))
                       THEN [fill |-> [growBox(counted, cx, cy) EXCEPT
                                          !.stack = pushNeighbours(@, cx, cy)],
                             visited |-> visited \cup {<<cx, cy>>}]
                       ELSE [fill |-> counted, visited |-> visited]

\* n passes of the while loop
RECURSIVE whileViewer(_, _, _)
whileViewer(cv, st, n) ==
    IF n <= 0 \/ st.fill.stack = <<>> \/ st.fill.cut THEN st
    ELSE IF n = 1 THEN fillStepViewer(cv, st)
    ELSE \* the first half of the passes, then the rest from where it ended
         CHOOSE end \in {whileViewer(cv, half, n - n \div 2) :
                             half \in {whileViewer(cv, st, n \div 2)}} : TRUE

\* the while loop of lines 81-111 (viewer): the fill and the visited set after it.
\* Every pass pops one entry, and four entries are pushed per pixel added to
\* visited, so the loop makes at most 4 * width * height + 1 passes.
floodFillViewer(cv, f, visited) ==
    whileViewer(cv, [fill |-> f, visited |-> visited], 4 * cv.width * cv.height + 1)

\* a mutant of scanStepViewer: the pixels are scanned column by column
scanStepViewerByColumns(cv, k, sc) ==
    LET x == k \div cv.height
        y == k % cv.height
    IN IF sc.stoppedAt # <<>> THEN sc
       ELSE IF ~(isTileColor(pixelAt(cv, x, y)) /\ <<x, y>> \notin sc.visited) THEN sc
       ELSE IF atSquareCap(sc.squares)
       THEN [sc EXCEPT !.warnings = Append(@, "transaction limit reached"),
                       !.stoppedAt = <<x, y>>]
       ELSE CHOOSE after \in
                {[sc EXCEPT
                     !.starts = Append(@, <<x, y>>),
                     !.visited = done.visited,
                     !.squares = Append(@, makeSquare(cv, done.fill, sc.squares)),
                     !.warnings = IF done.fill.cut
                                  THEN Append(@, "Too many pixels in single square")
                                  ELSE @,
                     !.cuts = IF done.fill.cut THEN @ + 1 ELSE @] :
                 done \in {floodFillViewer(cv, startFill(x, y), sc.visited)}} : TRUE

\* the body of the loops of lines 57-132 (viewer) at the pixel number
\* k = y * width + x; after the return at the square cap nothing is done
scanStepViewer(cv, k, sc) ==
    LET x == k % cv.width
        y == k \div cv.width
    IN IF sc.stoppedAt # <<>> THEN sc
       ELSE IF ~(isTileColor(pixelAt(cv, x, y)) /\ <<x, y>> \notin sc.visited) THEN sc
       ELSE IF atSquareCap(sc.squares)
       THEN [sc EXCEPT !.warnings = Append(@, "transaction limit reached"),
                       !.stoppedAt = <<x, y>>]
       ELSE \* done: the fill and the visited set when the while loop is left
            CHOOSE after \in
                {[sc EXCEPT
                     !.starts = Append(@, <<x, y>>),
                     !.visited = done.visited,
                     !.squares = Append(@, makeSquare(cv, done.fill, sc.squares)),
                     !.warnings = IF done.fill.cut
                                  THEN Append(@, "Too many pixels in single square")
                                  ELSE @,
                     !.cuts = IF done.fill.cut THEN @ + 1 ELSE @] :
                 done \in {floodFillViewer(cv, startFill(x, y), sc.visited)}} : TRUE

\* the loops over the pixel numbers lo..hi
RECURSIVE forViewer(_, _, _, _)
forViewer(cv, lo, hi, sc) ==
    IF lo > hi THEN sc
    ELSE IF lo = hi THEN scanStepViewer(cv, lo, sc)
    ELSE \* the first half of the pixels, then the rest from where it ended
         CHOOSE end \in {forViewer(cv, (lo + hi) \div 2 + 1, hi, half) :
                             half \in {forViewer(cv, lo, (lo + hi) \div 2, sc)}} : TRUE

\* the loops of lines 57-132 (viewer) from the pixel number k
scanViewer(cv, k, sc) == forViewer(cv, k, cv.width * cv.height - 1, sc)

\* one pass of the while loop of lines 1292-1318 (preload) on the fill and the
\* visited set; the loop is over when the stack is empty or the break was taken
fillStepPreload(cv, st) ==
    LET f == st.fill
        visited == st.visited
    IN IF f.stack = <<>> \/ f.cut THEN st
       ELSE LET cx == f.stack[Len(f.stack)][1]
                cy == f.stack[Len(f.stack)][2]
                popped == [f EXCEPT !.stack = Pop(@)]
            IN IF <<cx, cy>> \in visited THEN [fill |-> popped, visited |-> visited]
               ELSE IF outOfCanvas(cv, cx, cy) THEN [fill |-> popped, visited |-> visited]
               ELSE LET counted == [popped EXCEPT !.pixelsInThisSquare = @ + 1]
                    IN IF overPixelCap(counted.pixelsInThisSquare)
                       THEN [fill |-> [counted EXCEPT !.cut = TRUE], visited |-> visited]
                       ELSE IF isTileColor(pixelAt(cv, cx, cy))
                       THEN [fill |-> [growBox(counted, cx, cy) EXCEPT
                                          !.stack = pushNeighbours(@, cx, cy)],
                             visited |-> visited \cup {<<cx, cy>>}]
                       ELSE [fill |-> counted, visited |-> visited]

\* n passes of the while loop
RECURSIVE whilePreload(_, _, _)
whilePreload(cv, st, n) ==
    IF n <= 0 \/ st.fill.stack = <<>> \/ st.fill.cut THEN st
    ELSE IF n = 1 THEN fillStepPreload(cv, st)
    ELSE \* the first half of the passes, then the rest from where it ended
         CHOOSE end \in {whilePreload(cv, half, n - n \div 2) :
                             half \in {whilePreload(cv, st, n \div 2)}} : TRUE

\* the while loop of lines 1292-1318 (preload): the fill and the visited set after it.
\* Every pass pops one entry, and four entries are pushed per pixel added to
\* visited, so the loop makes at most 4 * width * height + 1 passes.
floodFillPreload(cv, f, visited) ==
    whilePreload(cv, [fill |-> f, visited |-> visited], 4 * cv.width * cv.height + 1)

\* a mutant of scanStepPreload: the pixels are scanned column by column
scanStepPreloadByColumns(cv, k, sc) ==
    LET x == k \div cv.height
        y == k % cv.height
    IN IF sc.stoppedAt # <<>> THEN sc
       ELSE IF ~(isTileColor(pixelAt(cv, x, y)) /\ <<x, y>> \notin sc.visited) THEN sc
       ELSE IF atSquareCap(sc.squares)
       THEN [sc EXCEPT !.warnings = Append(@, "transaction limit reached"),
                       !.stoppedAt = <<x, y>>]
       ELSE CHOOSE after \in
                {[sc EXCEPT
                     !.starts = Append(@, <<x, y>>),
                     !.visited = done.visited,
                     !.squares = Append(@, makeSquare(cv, done.fill, sc.squares)),
                     !.cuts = IF done.fill.cut THEN @ + 1 ELSE @] :
                 done \in {floodFillPreload(cv, startFill(x, y), sc.visited)}} : TRUE

\* the body of the loops of lines 1272-1338 (preload) at the pixel number
\* k = y * width + x: the break of line 1299 warns nothing; after the return at the square cap nothing is done
scanStepPreload(cv, k, sc) ==
    LET x == k % cv.width
        y == k \div cv.width
    IN IF sc.stoppedAt # <<>> THEN sc
       ELSE IF ~(isTileColor(pixelAt(cv, x, y)) /\ <<x, y>> \notin sc.visited) THEN sc
       ELSE IF atSquareCap(sc.squares)
       THEN [sc EXCEPT !.warnings = Append(@, "transaction limit reached"),
                       !.stoppedAt = <<x, y>>]
       ELSE \* done: the fill and the visited set when the while loop is left
            CHOOSE after \in
                {[sc EXCEPT
                     !.starts = Append(@, <<x, y>>),
                     !.visited = done.visited,
                     !.squares = Append(@, makeSquare(cv, done.fill, sc.squares)),
                     !.cuts = IF done.fill.cut THEN @ + 1 ELSE @] :
                 done \in {floodFillPreload(cv, startFill(x, y), sc.visited)}} : TRUE

\* the loops over the pixel numbers lo..hi
RECURSIVE forPreload(_, _, _, _)
forPreload(cv, lo, hi, sc) ==
    IF lo > hi THEN sc
    ELSE IF lo = hi THEN scanStepPreload(cv, lo, sc)
    ELSE \* the first half of the pixels, then the rest from where it ended
         CHOOSE end \in {forPreload(cv, (lo + hi) \div 2 + 1, hi, half) :
                             half \in {forPreload(cv, lo, (lo + hi) \div 2, sc)}} : TRUE

\* the loops of lines 1272-1338 (preload) from the pixel number k
scanPreload(cv, k, sc) == forPreload(cv, k, cv.width * cv.height - 1, sc)

\* img.onload of the copy that runs
onloadScan(rt, cv) ==
    IF rt = "viewer" THEN scanViewer(cv, 0, startScan)
    ELSE scanPreload(cv, 0, startScan)

-----------------------------------------------------------------------------
(* The packing of one layout: generateVisualization builds a layout and      *)
(* calls place once per item (lines 872-877).                                *)

ClassifyIdle == txValues = <<>> /\ maxTier = Infinity /\ txSizes = <<>>

NoCanvas == [width |-> 0, height |-> 0, pixels |-> <<>>]
NoPromise == [state |-> "none", value |-> <<>>, by |-> "none"]
NoCapHits == [squares |-> 0, pixels |-> 0, stoppedAt |-> <<>>]
NoLoop == [at |-> "idle"]

\* the two limits as scaled to the images of at most ImgPixels pixels
ImageLimits == [squares |-> SquareCap, pixels |-> PixelCap]

RenderIdle == bitmapImage = NoCanvas

\* new Map(), line 29: the function of the empty domain
EmptyMap == <<>>

CacheIdle == global3DCache = EmptyMap /\ chain = <<>> /\ scenes = <<>>

\* useState(null) of result, line 471
NoResult == [bitmapNumber |-> "null"]

\* the useState initial values of lines 470-484, before the mount effect has run
NoPage == [error |-> "", result |-> NoResult, parcels |-> <<>>, loading |-> FALSE,
           loadingParcels |-> FALSE, isHomePage |-> TRUE, mounted |-> FALSE, timers |-> 0]

\* a signature as the state keeps it: its text ('' when there is none), and for
\* the record the connect attempt that obtained it and the address it asked for
NoSignature == [text |-> "", attempt |-> 0, address |-> ""]

\* the useState initial values of lines 487-496; btcBy and adaBy record which
\* connect attempt set the address last (0: none)
NoWallet == [btcAddress |-> "", adaAddress |-> "", btcWallet |-> "", cardanoWallet |-> "",
             btcSignature |-> NoSignature, adaSignature |-> NoSignature,
             walletError |-> "", linkages |-> <<>>, timers |-> 0, btcBy |-> 0, adaBy |-> 0]

\* const cache = new Map(), line 1 of the API route, and the clock at its start
NoProxy == [cache |-> EmptyMap, now |-> 0, ticks |-> 0]

AppIdle ==
    /\ page = NoPage /\ lookups = <<>>
    /\ wallet = NoWallet /\ connects = <<>>
    /\ proxy = NoProxy /\ requests = <<>>

ParseIdle ==
    /\ routine = "viewer"
    /\ canvas = NoCanvas
    /\ args = [imageDataUrl |-> FALSE, txList |-> "null"]
    /\ promise = NoPromise
    /\ warnings = <<>>
    /\ capHits = NoCapHits
    /\ discovered = <<>>
    /\ loop = NoLoop
    /\ limits = ImageLimits

InitLayout ==
    /\ AppIdle
    /\ \E w \in 1..MaxWidth : layout = MondrianLayout(w)
    /\ positions = <<>>
    /\ calls = <<>>
    /\ gridSquare = <<>>
    /\ ClassifyIdle
    /\ ParseIdle
    /\ RenderIdle
    /\ CacheIdle

\* layout.place(item.tx, item.size) and positions.push of the square
Place(size) ==
    /\ Len(calls) < MaxItems
    /\ LET tx == Len(calls) + 1
           placed == place(layout, tx, size)
       IN /\ layout' = placed.L
          /\ positions' = Append(positions, placed.square)
          /\ gridSquare' = Append(gridSquare, placed.square)
    /\ calls' = Append(calls, size)
    /\ UNCHANGED <<classifyVars, parseVars, renderVars, cacheVars, appVars>>

PlaceTile == \E size \in 1..layout.width : Place(size)

NextLayout == PlaceTile

SpecLayout == InitLayout /\ [][NextLayout]_vars

-----------------------------------------------------------------------------
(* The concrete scenario of the specification: a layout of width 10 and the  *)
(* sizes 3,3,3,1,1,1,1,1,1,1.  The items are placed in any order that uses    *)
(* each size as often as the scenario does; the scenario's own order is one   *)
(* of the behaviours.                                                          *)

Scenario == [width |-> 10, sizes |-> <<3, 3, 3, 1, 1, 1, 1, 1, 1, 1>>]

Count(seq, v) == Cardinality({i \in 1..Len(seq) : seq[i] = v})

InitScenario ==
    /\ AppIdle
    /\ layout = MondrianLayout(Scenario.width)
    /\ positions = <<>>
    /\ calls = <<>>
    /\ gridSquare = <<>>
    /\ ClassifyIdle
    /\ ParseIdle
    /\ RenderIdle
    /\ CacheIdle

PlaceScenario ==
    \E size \in {Scenario.sizes[i] : i \in 1..Len(Scenario.sizes)} :
        /\ Count(calls, size) < Count(Scenario.sizes, size)
        /\ LET placed == place(layout, Len(calls) + 1, size)
           IN /\ layout' = placed.L
              /\ positions' = Append(positions, placed.square)
              /\ gridSquare' = Append(gridSquare, placed.square)
        /\ calls' = Append(calls, size)
        /\ UNCHANGED <<classifyVars, parseVars, renderVars, cacheVars, appVars>>

NextScenario == PlaceScenario

SpecScenario == InitScenario /\ [][NextScenario]_vars

-----------------------------------------------------------------------------
(* place called with any size, degenerate sizes (size <= 0) included.        *)

DegenerateSizes == {-1, 0}

PlaceDegenerate == \E size \in DegenerateSizes : Place(size)

NextDegenerate == PlaceTile \/ PlaceDegenerate

SpecDegenerate == InitLayout /\ [][NextDegenerate]_vars

-----------------------------------------------------------------------------
(* Vocabulary of the claims about the packing.                               *)

\* the grid cells [x, x+r) x [y, y+r) of a square
Cells(sq) == {<<cx, cy>> : cx \in sq.x..(sq.x + sq.r - 1), cy \in sq.y..(sq.y + sq.r - 1)}

PairwiseDisjoint(sqs) ==
    \A i, j \in 1..Len(sqs) : i # j => Cells(sqs[i]) \cap Cells(sqs[j]) = {}

RECURSIVE SumOfSquares(_)
SumOfSquares(sqs) ==
    IF sqs = <<>> THEN 0
    ELSE sqs[1].r * sqs[1].r + SumOfSquares(Tail(sqs))

\* the cell of the occupancy grid, 0 when the grid has no such cell
TxMapAt(L, cx, cy) ==
    IF cy + 1 \in 1..Len(L.txMap) /\ cx + 1 \in 1..Len(L.txMap[cy + 1])
    THEN L.txMap[cy + 1][cx + 1] ELSE 0

LastOf(seq) == seq[Len(seq)]

\* a step that is one call of place
IsPlaceStep == Len(calls') = Len(calls) + 1

\* C1: the squares of every two distinct placed tiles are disjoint, and every
\* cell of every placed tile still holds that tile's item in the occupancy grid
\* (setTxMapCell never wrote over another item's cell).
C1_NoOverlap ==
    /\ PairwiseDisjoint(positions)
    /\ \A k \in 1..Len(positions) :
           \A c \in Cells(positions[k]) : TxMapAt(layout, c[1], c[2]) = k

\* C1 witness: a full layout with tiles of different sizes, one of them below
\* another and one to the right of another
C1_Witness ==
    /\ Len(positions) = MaxItems
    /\ \E i, j \in 1..Len(positions) : positions[i].r # positions[j].r
    /\ \E i \in 1..Len(positions) : positions[i].x > 0 /\ positions[i].y > 0

\* the places <<row, index>> of the slots with r >= size, and their scan order
FittingSlots(L, size) ==
    {p \in (1..Len(L.rows)) \X (1..MaxWidth + 1) :
        /\ p[2] <= Len(L.rows[p[1]].slots)
        /\ L.heap[L.rows[p[1]].slots[p[2]]].r >= size}

ScannedBefore(p, q) == p[1] < q[1] \/ (p[1] = q[1] /\ p[2] <= q[2])

\* C2: place puts the tile at the (x, y) of the first slot with r >= size in
\* the scan of the rows top to bottom and of each row's slots left to right;
\* with no such slot it appends a new row and puts the tile at column 0 of it;
\* the returned square has r = size.
C2_FirstFit ==
    [][IsPlaceStep =>
        LET size == LastOf(calls')
            sq == LastOf(positions')
            fitting == FittingSlots(layout, size)
        IN /\ sq.r = size
           /\ Len(positions') = Len(positions) + 1
           /\ IF fitting # {}
              THEN \E p \in fitting :
                      /\ \A q \in fitting : ScannedBefore(p, q)
                      /\ sq.x = layout.heap[layout.rows[p[1]].slots[p[2]]].x
                      /\ sq.y = layout.heap[layout.rows[p[1]].slots[p[2]]].y
              ELSE /\ sq.x = 0
                   /\ sq.y = Len(layout.rows)
                   /\ Len(layout'.rows) > Len(layout.rows)
      ]_vars

\* C2 witness: the last tile went into a slot that is not the first of the
\* scan (a smaller slot of an earlier row is still free), and an earlier tile
\* opened a row of its own
C2_Witness ==
    /\ Len(positions) >= 3
    /\ LET sq == LastOf(positions)
       IN /\ sq.x > 0
          /\ \E i \in 1..Len(layout.rows) : \E j \in 1..Len(layout.rows[i].slots) :
                 /\ i - 1 < sq.y
                 /\ layout.heap[layout.rows[i].slots[j]].r < sq.r
    /\ \E k \in 2..Len(positions) : positions[k].x = 0 /\ positions[k].y > 0

IsPrefix(s, t) == Len(s) <= Len(t) /\ \A i \in 1..Len(s) : s[i] = t[i]

\* the number of rows the tiles sqs reach into
RowsUsed(sqs) ==
    IF sqs = <<>> THEN 0
    ELSE LET ends == {sqs[i].y + sqs[i].r : i \in 1..Len(sqs)}
         IN CHOOSE m \in ends : \A e \in ends : e <= m

Occupied(sqs) == UNION {Cells(sqs[i]) : i \in 1..Len(sqs)}

\* the first cell in row-major order (rows top to bottom, columns left to
\* right) that no tile of sqs covers; the row after the last used row is free
FirstFreeCell(sqs, w) ==
    LET free == ((0..(w - 1)) \X (0..RowsUsed(sqs))) \ Occupied(sqs)
    IN CHOOSE c \in free :
           \A d \in free : c[2] < d[2] \/ (c[2] = d[2] /\ c[1] <= d[1])

\* C3: on a layout of width 10, placing 3,3,3,1,1,1,1,1,1,1 in that order puts
\* the 3x3 tiles at (0,0), (3,0), (6,0) and each 1x1 tile on the cell that is
\* the first unoccupied cell in row-major order when it is placed.
C3_ScenarioPositions ==
    IsPrefix(calls, Scenario.sizes) =>
        /\ Len(positions) = Len(calls)
        /\ \A k \in 1..Len(positions) :
              /\ k <= 3 => positions[k] = [x |-> 3 * (k - 1), y |-> 0, r |-> 3]
              /\ k > 3 =>
                    LET c == FirstFreeCell(SubSeq(positions, 1, k - 1), Scenario.width)
                    IN positions[k] = [x |-> c[1], y |-> c[2], r |-> 1]

\* C3 witness: the whole scenario has been placed, in the scenario's order
C3_Witness == calls = Scenario.sizes /\ Len(positions) = Len(Scenario.sizes)

\* C4 as stated: after the scenario the grid is filled with zero remaining
\* free area (width x rows = sum of the squared sides) and no two tiles overlap.
C4_ScenarioZeroFree ==
    calls = Scenario.sizes =>
        /\ layout.width * Len(layout.rows) = SumOfSquares(positions)
        /\ PairwiseDisjoint(positions)

\* C4 amended: after the scenario no two tiles overlap, the layout holds 4
\* rows, the tiles cover 34 of its 40 cells, and the 6 free cells are the
\* columns 4..9 of the last row.
C4_ScenarioDensity ==
    calls = Scenario.sizes =>
        /\ PairwiseDisjoint(positions)
        /\ Len(layout.rows) = 4
        /\ SumOfSquares(positions) = 34
        /\ layout.width * Len(layout.rows) - SumOfSquares(positions) = 6
        /\ ((0..(layout.width - 1)) \X (0..(Len(layout.rows) - 1))) \ Occupied(positions)
               = (4..9) \X {3}

C4_Witness == calls = Scenario.sizes /\ Len(layout.rows) = 4

\* C5: the sum of side^2 over the placed tiles is at most the width times the
\* number of rows the layout holds.
C5_AreaBound ==
    SumOfSquares(positions) <= layout.width * Len(layout.rows)

\* C5 witness: several tiles of different sizes fill every cell of the rows
C5_Witness ==
    /\ Len(positions) >= 3
    /\ \E i, j \in 1..Len(positions) : positions[i].r # positions[j].r
    /\ SumOfSquares(positions) = layout.width * Len(layout.rows)

\* C6 as stated: place with size <= 0 places no tile, creates no row and no
\* slot, and leaves every row and slot of the layout unchanged.
C6_DegenerateRejected ==
    [][(IsPlaceStep /\ LastOf(calls') <= 0) =>
          /\ layout'.rows = layout.rows
          /\ layout'.heap = layout.heap
          /\ positions' = positions
      ]_vars

-----------------------------------------------------------------------------
(* The classification of a list of transactions (lines 721-726), with the    *)
(* cap as a parameter: generateVisualization itself passes Infinity.          *)

\* the values the transactions are drawn from: 0 and the integers next to the
\* powers of ten
Values == {0} \cup UNION {{10^k - 1, 10^k, 10^k + 1} : k \in 0..MaxExp}

\* the caps: 0 (a falsy cap), the numbers 1..MaxCap and Infinity
Caps == {Finite(k) : k \in 0..MaxCap} \cup {Infinity}

LayoutIdle ==
    /\ layout = MondrianLayout(1)
    /\ positions = <<>>
    /\ calls = <<>>
    /\ gridSquare = <<>>

InitClassify ==
    /\ AppIdle
    /\ \E v1, v2 \in Values : txValues = <<v1, v2>>
    /\ maxTier \in Caps
    /\ txSizes = <<>>
    /\ LayoutIdle
    /\ ParseIdle
    /\ RenderIdle
    /\ CacheIdle

\* one step of transactions.map: the size of the next transaction
Classify ==
    /\ Len(txSizes) < Len(txValues)
    /\ txSizes' = Append(txSizes, logTxSize(txValues[Len(txSizes) + 1], maxTier))
    /\ UNCHANGED <<txValues, maxTier, layoutVars, parseVars, renderVars, cacheVars, appVars>>

NextClassify == Classify

SpecClassify == InitClassify /\ [][NextClassify]_vars

\* ceil(log10(w)) for 1 <= w <= 10^MaxExp + 1: the least k with 10^k >= w,
\* which is the number of powers of ten below w
CeilLog10Of(w) == Cardinality({j \in 0..MaxExp : 10^j < w})

\* max(1, min(maxTier, ceil(log10(w)) - 5)) with the cap as it was passed
ClaimedTier(w, cap) ==
    IF w = 0 THEN 1
    ELSE LET scale == CeilLog10Of(w) - 5
         IN Max(1, IF cap.fin THEN Min(cap.n, scale) ELSE scale)

\* C7 as stated: for every weight and every maxTier the result is 1 for a
\* falsy weight and max(1, min(maxTier, ceil(log10(w)) - 5)) otherwise, and
\* is >= 1.
C7_ClassifierResult ==
    \A k \in 1..Len(txSizes) :
        /\ txSizes[k] = ClaimedTier(txValues[k], maxTier)
        /\ txSizes[k] >= 1

\* C7 amended: the same for every maxTier that is >= 1 or Infinity; a maxTier
\* of 0 is treated as no cap, and the result is then max(1, ceil(log10(w)) - 5);
\* in all these cases the result is an integer >= 1.
C7_ClassifierResultCapped ==
    \A k \in 1..Len(txSizes) :
        /\ txSizes[k] \in Nat /\ txSizes[k] >= 1
        /\ (~maxTier.fin \/ maxTier.n >= 1) =>
               txSizes[k] = ClaimedTier(txValues[k], maxTier)
        /\ (maxTier.fin /\ maxTier.n = 0) =>
               txSizes[k] = ClaimedTier(txValues[k], Infinity)

\* C7 witness: a value at an exact power of ten classified above the floor, a
\* larger one cut down by a finite cap
C7_Witness ==
    /\ Len(txSizes) = 2
    /\ maxTier = Finite(2)
    /\ txValues[1] = 10^7 /\ txSizes[1] = 2
    /\ txValues[2] = 10^8 + 1 /\ txSizes[2] = 2

\* C8: for a fixed maxTier and weights w1 < w2, logTxSize(w1) <= logTxSize(w2).
C8_ClassifierMonotone ==
    \A i, j \in 1..Len(txSizes) :
        txValues[i] < txValues[j] => txSizes[i] <= txSizes[j]

\* C8 witness: two weights in increasing order classified into different tiers
C8_Witness ==
    /\ Len(txSizes) = 2
    /\ txValues[1] < txValues[2]
    /\ txValues[1] > 0
    /\ txSizes[1] < txSizes[2]

-----------------------------------------------------------------------------
(* One call of parseMondrianFromImage, by the viewer or by preload3DData.    *)
(* The call returns a pending promise or resolves it at once; the decoder     *)
(* then calls img.onload or img.onerror.  The picture is what the decoder     *)
(* hands to onload: canvas takes its width, height and pixels there.          *)

Palette == {Background, TileColor}

\* the widths and heights of the decoded images
Shapes == {s \in (1..ImgPixels) \X (1..ImgPixels) : s[1] * s[2] <= ImgPixels}

\* the images of one width and height
Pictures(w, h) ==
    {[width |-> w, height |-> h, pixels |-> px] : px \in [1..(w * h) -> Palette]}

InitParse ==
    /\ AppIdle
    /\ routine \in {"viewer", "preload"}
    /\ args \in [imageDataUrl : BOOLEAN, txList : {"null", "empty", "items"}]
    /\ canvas = NoCanvas
    /\ promise = NoPromise
    /\ warnings = <<>>
    /\ capHits = NoCapHits
    /\ discovered = <<>>
    /\ loop = NoLoop
    /\ limits = ImageLimits
    /\ LayoutIdle
    /\ ClassifyIdle
    /\ RenderIdle
    /\ CacheIdle

\* lines 40-48 and 136: the call resolves [] at once, or starts the decoding
ParseCall ==
    /\ promise.state = "none"
    /\ promise' = IF ~args.imageDataUrl \/ args.txList # "items"
                  THEN [state |-> "resolved", value |-> <<>>, by |-> "call"]
                  ELSE [state |-> "pending", value |-> <<>>, by |-> "none"]
    /\ UNCHANGED <<routine, canvas, args, warnings, capHits, discovered, limits, loop, layoutVars,
                   classifyVars, renderVars, cacheVars, appVars>>

\* a mutant of ImgOnError: the promise is left pending
ImgOnErrorUnresolved ==
    /\ promise.state = "pending"
    /\ promise' = [state |-> "pending", value |-> <<>>, by |-> "onerror"]
    /\ UNCHANGED <<routine, canvas, args, warnings, capHits, discovered, limits, loop, layoutVars,
                   classifyVars, renderVars, cacheVars, appVars>>

\* img.onerror (lines 48 and 1263)
ImgOnError ==
    /\ promise.state = "pending"
    /\ promise' = [state |-> "resolved", value |-> <<>>, by |-> "onerror"]
    /\ UNCHANGED <<routine, canvas, args, warnings, capHits, discovered, limits, loop, layoutVars,
                   classifyVars, renderVars, cacheVars, appVars>>

\* img.onload (lines 49-135 and 1264-1340)
onload(picture) ==
    \E sc \in {onloadScan(routine, picture)} :
       /\ canvas' = picture
       /\ promise' = [state |-> "resolved", value |-> sc.squares, by |-> "onload"]
       /\ warnings' = warnings \o sc.warnings
       /\ capHits' = [squares |-> IF sc.stoppedAt # <<>> THEN 1 ELSE 0,
                      pixels |-> sc.cuts,
                      stoppedAt |-> sc.stoppedAt]
       /\ discovered' = sc.starts

ImgOnLoad ==
    /\ promise.state = "pending"
    /\ \E s \in Shapes : \E picture \in Pictures(s[1], s[2]) : onload(picture)
    /\ UNCHANGED <<routine, args, limits, loop, layoutVars, classifyVars, renderVars,
                   cacheVars, appVars>>

NextParse == ParseCall \/ ImgOnError \/ ImgOnLoad

SpecParse == InitParse /\ [][NextParse]_vars

-----------------------------------------------------------------------------
(* Vocabulary of the claims about the reconstruction.                        *)

\* the coordinates of the picture that match the colour test
TilePixels(cv) ==
    {c \in (0..(cv.width - 1)) \X (0..(cv.height - 1)) : isTileColor(pixelAt(cv, c[1], c[2]))}

Adjacent4(c, d) ==
    \/ c[2] = d[2] /\ (c[1] = d[1] + 1 \/ d[1] = c[1] + 1)
    \/ c[1] = d[1] /\ (c[2] = d[2] + 1 \/ d[2] = c[2] + 1)

\* the 4-connected closure of the set S inside T
RECURSIVE Closure4(_, _)
Closure4(S, T) ==
    LET N == S \cup {d \in T : \E c \in S : Adjacent4(c, d)}
    IN IF N = S THEN S ELSE Closure4(N, T)

\* the maximal 4-connected sets of matching pixels
Components(cv) == {Closure4({c}, TilePixels(cv)) : c \in TilePixels(cv)}

\* the position of a coordinate in the row-major scan
ScanIndex(cv, c) == c[2] * cv.width + c[1]

FirstPixel(cv, C) == CHOOSE c \in C : \A d \in C : ScanIndex(cv, c) <= ScanIndex(cv, d)

\* the k-th component in the scan order of the components' first pixels
ComponentAt(cv, k) ==
    CHOOSE C \in Components(cv) :
        Cardinality({D \in Components(cv) :
            ScanIndex(cv, FirstPixel(cv, D)) < ScanIndex(cv, FirstPixel(cv, C))}) = k - 1

\* the square of the exact bounding box of the pixel set C, as the k-th square
SquareOf(cv, C, k) ==
    LET xs == {c[1] : c \in C}
        ys == {c[2] : c \in C}
        minX == CHOOSE a \in xs : \A b \in xs : a <= b
        maxX == CHOOSE a \in xs : \A b \in xs : a >= b
        minY == CHOOSE a \in ys : \A b \in ys : a <= b
        maxY == CHOOSE a \in ys : \A b \in ys : a >= b
    IN [x |-> minX + maxX - cv.width,
        z |-> minY + maxY - cv.height,
        width |-> maxX - minX + 1,
        depth |-> maxY - minY + 1,
        height |-> Max(maxX - minX + 1, maxY - minY + 1),
        txIndex |-> k - 1]

Loaded == promise.state = "resolved" /\ promise.by = "onload"

LimitWarned == \E i \in 1..Len(warnings) : warnings[i] = "transaction limit reached"

PixelWarnings ==
    Cardinality({i \in 1..Len(warnings) : warnings[i] = "Too many pixels in single square"})

\* the first SquareCap squares are the first SquareCap components in scan order
FirstComponentsReturned ==
    \A k \in 1..SquareCap : promise.value[k] = SquareOf(canvas, ComponentAt(canvas, k), k)

\* C9 as stated: never more than the cap of squares; with more components than
\* the cap the scan stops at the first unvisited matching pixel found once the
\* cap is reached and returns exactly the first cap components in scan order;
\* with exactly cap components all are returned and nothing is truncated.
C9_SquareCap ==
    Loaded =>
        LET n == Cardinality(Components(canvas))
        IN /\ Len(promise.value) <= SquareCap
           /\ n > SquareCap =>
                 /\ Len(promise.value) = SquareCap
                 /\ capHits.squares = 1 /\ LimitWarned
                 /\ capHits.stoppedAt = FirstPixel(canvas, ComponentAt(canvas, SquareCap + 1))
                 /\ FirstComponentsReturned
           /\ n = SquareCap =>
                 /\ Len(promise.value) = SquareCap
                 /\ capHits.squares = 0 /\ ~LimitWarned
                 /\ FirstComponentsReturned

\* C9 amended: never more than the cap of squares, and with more components
\* than the cap exactly cap squares are returned and the truncation is warned
\* of; when no flood fill is cut short by the pixel cap, the scan stops at the
\* first pixel of component cap + 1 and the squares are the first cap
\* components in scan order, and a buffer of exactly cap components is
\* returned in full with no truncation.
C9_SquareCapUncut ==
    Loaded =>
        LET n == Cardinality(Components(canvas))
        IN /\ Len(promise.value) <= SquareCap
           /\ n > SquareCap =>
                 /\ Len(promise.value) = SquareCap
                 /\ capHits.squares = 1 /\ LimitWarned
                 /\ capHits.pixels = 0 =>
                       /\ capHits.stoppedAt
                              = FirstPixel(canvas, ComponentAt(canvas, SquareCap + 1))
                       /\ FirstComponentsReturned
           /\ (n = SquareCap /\ capHits.pixels = 0) =>
                 /\ Len(promise.value) = SquareCap
                 /\ capHits.squares = 0 /\ ~LimitWarned
                 /\ FirstComponentsReturned

\* C9 witness: a picture of more components than the cap, parsed with no fill
\* cut short and stopped at the cap
C9_Witness ==
    /\ Loaded
    /\ Cardinality(Components(canvas)) > SquareCap
    /\ capHits.pixels = 0
    /\ capHits.squares = 1
    /\ Len(promise.value) = SquareCap

\* C10 as stated: in both copies, every time the square cap or the pixel cap
\* triggers a warning is emitted, and the promise is resolved with the squares
\* found so far.
C10_CapsObservable ==
    promise.by = "onload" =>
        /\ promise.state = "resolved"
        /\ capHits.squares > 0 => LimitWarned
        /\ PixelWarnings = capHits.pixels

-----------------------------------------------------------------------------
(* The order of the squares.                                                 *)

\* the bounding box a square was made from (makeSquare read backwards)
BoxOf(cv, sq) ==
    LET sumX == sq.x + cv.width
        sumY == sq.z + cv.height
    IN [minX |-> (sumX - (sq.width - 1)) \div 2, maxX |-> (sumX + (sq.width - 1)) \div 2,
        minY |-> (sumY - (sq.depth - 1)) \div 2, maxY |-> (sumY + (sq.depth - 1)) \div 2]

InBox(box, c) ==
    /\ box.minX <= c[1] /\ c[1] <= box.maxX
    /\ box.minY <= c[2] /\ c[2] <= box.maxY

\* C11: the squares of the output are in the row-major order (top to bottom,
\* then left to right) of the pixels at which they were discovered: one
\* discovery pixel per square, a matching pixel inside the square's box, each
\* later in the scan than the one before; and the square at position k
\* (counted from 0) has txIndex k.
C11_DiscoveryOrder ==
    Loaded =>
        /\ Len(discovered) = Len(promise.value)
        /\ \A k \in 1..Len(promise.value) :
              /\ promise.value[k].txIndex = k - 1
              /\ isTileColor(pixelAt(canvas, discovered[k][1], discovered[k][2]))
              /\ InBox(BoxOf(canvas, promise.value[k]), discovered[k])
              /\ \A j \in 1..(k - 1) :
                    ScanIndex(canvas, discovered[j]) < ScanIndex(canvas, discovered[k])

\* C11 witness: three squares, the second discovered in the row of the first
\* and the third in a later row
C11_Witness ==
    /\ Loaded
    /\ Len(promise.value) = 3
    /\ discovered[1][2] = discovered[2][2]
    /\ discovered[3][2] > discovered[2][2]
    /\ promise.value[3].txIndex = 2


-----------------------------------------------------------------------------
(* generateVisualization (lines 705-896): the sizes, the layout, the canvas. *)
(* The lengths of the canvas are scaled by 1/20 or less: a grid cell is at   *)
(* least GridUnit pixels wide where the code has 60, the padding is Padding  *)
(* where the code has 20, and the canvas is at least MinCanvas pixels wide   *)
(* where the code has 500.  MinCanvas is a multiple of GridUnit, so that     *)
(* gridSize is a whole number and fillRect paints whole pixels.              *)

GridUnit == 3      \* stands for the 60 of blockWidth * 60, line 728
MinCanvas == 6     \* stands for the 500 of lines 708-709 and 728
Padding == 2       \* stands for the 20 of lines 885, 886 and 890

\* Math.ceil(Math.sqrt(n)), line 727
CeilSqrt(n) == CHOOSE k \in 0..n : k * k >= n /\ (k = 0 \/ (k - 1) * (k - 1) < n)

\* lines 721-726: the size of every transaction
sizesOf(values) == [i \in 1..Len(values) |-> logTxSize(values[i], Infinity)]

RECURSIVE weightOf(_)
weightOf(sizes) ==
    IF sizes = <<>> THEN 0
    ELSE sizes[Len(sizes)] * sizes[Len(sizes)] + weightOf(SubSeq(sizes, 1, Len(sizes) - 1))

\* a mutant of placeAll: the items are placed from the last to the first
RECURSIVE placeAllFromLast(_, _, _, _)
placeAllFromLast(L, sizes, k, squares) ==
    IF k > Len(sizes) THEN [L |-> L, squares |-> squares]
    ELSE LET placed == place(L, k, sizes[Len(sizes) + 1 - k])
         IN placeAllFromLast(placed.L, sizes, k + 1, Append(squares, placed.square))

\* lines 874-877: place is called once per item, in the order of the list
RECURSIVE placeAll(_, _, _, _)
placeAll(L, sizes, k, squares) ==
    IF k > Len(sizes) THEN [L |-> L, squares |-> squares]
    ELSE LET placed == place(L, k, sizes[k])
         IN placeAll(placed.L, sizes, k + 1, Append(squares, placed.square))

\* line 876: the square in pixels
positionOf(square, gridSize) ==
    [x |-> square.x * gridSize, y |-> square.y * gridSize, size |-> square.r * gridSize]

\* a mutant of rectOf: the rectangle is not inset by the padding
rectOfNoPadding(pos) ==
    [x0 |-> pos.x, x1 |-> pos.x + pos.size, y0 |-> pos.y, y1 |-> pos.y + pos.size]

\* the rectangle of fillRect, line 893: the pixels x0 <= x < x1, y0 <= y < y1
rectOf(pos) ==
    [x0 |-> pos.x + Padding \div 2, x1 |-> pos.x + Padding \div 2 + (pos.size - Padding),
     y0 |-> pos.y + Padding \div 2, y1 |-> pos.y + Padding \div 2 + (pos.size - Padding)]

inRect(rect, x, y) == rect.x0 <= x /\ x < rect.x1 /\ rect.y0 <= y /\ y < rect.y1

SeqMax(seq, least) ==
    LET vals == {seq[i] : i \in 1..Len(seq)} \cup {least}
    IN CHOOSE a \in vals : \A b \in vals : a >= b

\* lines 878-895: the canvas, filled with the background and the rectangles
paint(pos, initialCanvasSize) ==
    LET maxX == SeqMax([i \in 1..Len(pos) |-> pos[i].x + pos[i].size], 0)
        maxY == SeqMax([i \in 1..Len(pos) |-> pos[i].y + pos[i].size], 0)
        w == Max(initialCanvasSize, maxX + Padding)
        h == Max(initialCanvasSize, maxY + Padding)
    IN CHOOSE cv \in
           {[width |-> cw, height |-> ch,
             pixels |-> [k \in 1..(cw * ch) |->
                            IF \E rect \in rects : inRect(rect, (k - 1) % cw, (k - 1) \div cw)
                            THEN TileColor ELSE Background]] :
            cw \in {w}, ch \in {h}, rects \in {{rectOf(pos[i]) : i \in 1..Len(pos)}}} : TRUE

\* lines 706-714: the canvas of an empty list
emptyCanvas ==
    [width |-> MinCanvas, height |-> MinCanvas,
     pixels |-> [k \in 1..(MinCanvas * MinCanvas) |-> Background]]

\* generateVisualization(transactions), the transactions given by their values
generateVisualization(values) ==
    IF Len(values) = 0
    THEN [sizes |-> <<>>, blockWidth |-> 0, gridSize |-> 0, L |-> MondrianLayout(0),
          squares |-> <<>>, image |-> emptyCanvas]
    ELSE LET sizes == sizesOf(values)
             blockWidth == CeilSqrt(weightOf(sizes))
             initialCanvasSize == Max(MinCanvas, blockWidth * GridUnit)
             gridSize == initialCanvasSize \div blockWidth
         IN CHOOSE gv \in
                {[sizes |-> sizes, blockWidth |-> blockWidth, gridSize |-> gridSize,
                  L |-> packed.L, squares |-> packed.squares,
                  image |-> paint([i \in 1..Len(sizes) |->
                                      positionOf(packed.squares[i], gridSize)],
                                  initialCanvasSize)] :
                 packed \in {placeAll(MondrianLayout(blockWidth), sizes, 1, <<>>)}} : TRUE


-----------------------------------------------------------------------------
(* The pipeline of a lookup: generateVisualization paints the image of the   *)
(* transactions, and parseMondrianFromImage (either copy) is given that      *)
(* image and the transactions (lines 1234 and 1376-1379, 1251 and 1344).     *)
(* The PNG keeps the pixels, so onload finds the painted canvas.             *)

\* the values of the transactions: no output, and values of the sizes 2 and 3
RenderValues == {0, 10^7, 10^8}

RECURSIVE SeqsUpTo(_, _)
SeqsUpTo(S, n) ==
    IF n = 0 THEN {<<>>}
    ELSE LET shorter == SeqsUpTo(S, n - 1)
         IN shorter \cup {Append(q, v) : q \in {p \in shorter : Len(p) = n - 1}, v \in S}

\* the two limits as scaled to the painted images
RenderLimits == [squares |-> RenderSquareCap, pixels |-> RenderPixelCap]

InitRender ==
    /\ AppIdle
    /\ txValues \in SeqsUpTo(RenderValues, MaxTx)
    /\ maxTier = Infinity
    /\ txSizes = <<>>
    /\ LayoutIdle
    /\ RenderIdle
    /\ CacheIdle
    /\ routine \in {"viewer", "preload"}
    /\ args = [imageDataUrl |-> TRUE, txList |-> IF txValues = <<>> THEN "empty" ELSE "items"]
    /\ canvas = NoCanvas
    /\ promise = NoPromise
    /\ warnings = <<>>
    /\ capHits = NoCapHits
    /\ discovered = <<>>
    /\ loop = NoLoop
    /\ limits = RenderLimits

\* const img = generateVisualization(txList)
GenerateVisualization ==
    /\ bitmapImage = NoCanvas
    /\ \E gv \in {generateVisualization(txValues)} :
          /\ txSizes' = gv.sizes
          /\ layout' = IF txValues = <<>> THEN layout ELSE gv.L
          /\ positions' = gv.squares
          /\ calls' = gv.sizes
          /\ gridSquare' = gv.squares
          /\ bitmapImage' = gv.image
    /\ UNCHANGED <<txValues, maxTier, parseVars, cacheVars, appVars>>

\* parseMondrianFromImage(img, txList)
ParseRendered ==
    /\ bitmapImage # NoCanvas
    /\ ParseCall

\* img.onload with the painted image
RenderedOnLoad ==
    /\ promise.state = "pending"
    /\ bitmapImage # NoCanvas
    /\ onload(bitmapImage)
    /\ UNCHANGED <<routine, args, limits, loop, layoutVars, classifyVars, renderVars,
                   cacheVars, appVars>>

NextRender == GenerateVisualization \/ ParseRendered \/ RenderedOnLoad \/ ImgOnError

SpecRender == InitRender /\ [][NextRender]_vars

\* the rectangles painted for the tiles of the layout
PaintedRects ==
    LET gridSize == Max(MinCanvas, layout.width * GridUnit) \div layout.width
    IN [i \in 1..Len(positions) |-> rectOf(positionOf(positions[i], gridSize))]

RectPixels(rect) == (rect.x0..(rect.x1 - 1)) \X (rect.y0..(rect.y1 - 1))

RectBox(rect) ==
    [minX |-> rect.x0, maxX |-> rect.x1 - 1, minY |-> rect.y0, maxY |-> rect.y1 - 1]

\* every tile is painted as a non-empty rectangle inside the buffer
RectsInside ==
    \A i \in 1..Len(positions) :
        LET rect == PaintedRects[i]
        IN /\ rect.x0 < rect.x1 /\ rect.y0 < rect.y1
           /\ 0 <= rect.x0 /\ rect.x1 <= canvas.width
           /\ 0 <= rect.y0 /\ rect.y1 <= canvas.height
           /\ \A c \in RectPixels(rect) : isTileColor(pixelAt(canvas, c[1], c[2]))

\* no two rectangles share a pixel or have 4-adjacent pixels
RectsApart ==
    \A i, j \in 1..Len(positions) :
        i # j => \A c \in RectPixels(PaintedRects[i]), d \in RectPixels(PaintedRects[j]) :
                     c # d /\ ~Adjacent4(c, d)

\* the squares found are the painted rectangles, one square per rectangle
SquaresAreRects ==
    /\ Len(promise.value) = Len(positions)
    /\ {BoxOf(canvas, promise.value[k]) : k \in 1..Len(promise.value)}
           = {RectBox(PaintedRects[i]) : i \in 1..Len(positions)}

\* the pops one flood fill counts on a painted square of the side s: its
\* s * s pixels once, and the background pixel beside each of its 4 * s edge
\* pixels once
FillCount(rect) ==
    LET side == rect.x1 - rect.x0
    IN side * side + 4 * side

\* C12 as stated: for every list of N >= 1 items, every tile is painted as a
\* non-empty rectangle inside the buffer that is not 4-adjacent to another
\* tile's rectangle, and the reconstruction of the buffer yields exactly N
\* squares whose bounding boxes are the N painted rectangles.
C12_RoundTrip ==
    (Loaded /\ Len(txValues) >= 1) =>
        /\ RectsInside
        /\ RectsApart
        /\ SquaresAreRects

\* C12 amended: the rectangles are as stated; the reconstruction yields the N
\* rectangles when no flood fill is cut short by the pixel cap, which is so
\* exactly when no painted rectangle makes a fill count more than the cap;
\* the square cap is then not reached either.
C12_RoundTripUncut ==
    (Loaded /\ Len(txValues) >= 1) =>
        /\ RectsInside
        /\ RectsApart
        /\ capHits.pixels = 0 => SquaresAreRects
        /\ capHits.pixels = 0 <=>
               \A i \in 1..Len(positions) : FillCount(PaintedRects[i]) <= limits.pixels
        /\ capHits.pixels = 0 => capHits.squares = 0

\* C12 witness: three or more tiles of two sizes painted, parsed with no fill
\* cut short, and found again
C12_Witness ==
    /\ Loaded
    /\ Len(positions) >= 3
    /\ \E i, j \in 1..Len(positions) : positions[i].r # positions[j].r
    /\ capHits.pixels = 0
    /\ SquaresAreRects


-----------------------------------------------------------------------------
(* global3DCache (line 29) and its two users: initScene of Bitmap3DViewer    *)
(* (lines 143-334) and preload3DData (lines 1246-1353).  Both are async: a   *)
(* run stops at its await of parseMondrianFromImage and goes on when the     *)
(* promise is resolved, and other runs start and go on in between.  A run    *)
(* is a record: kind, key, pc ("pending": the image is being decoded,        *)
(* "resolved": the promise was resolved at the call and the run has not gone *)
(* on yet, "done"), squares, parsed (parseMondrianFromImage was called) and  *)
(* hit (the key was found in the cache).                                     *)
(* The viewer is given the number, the image and the txList of a lookup; the *)
(* image is the one generateVisualization paints for that txList.            *)

MaxScenes == 2    \* at most MaxScenes runs of initScene and preload3DData
MaxBlockTx == 1   \* the txList of a block holds at most MaxBlockTx transactions

HomeBitmap == 267651   \* preload3DData(267651), line 1357

Bitmaps == {0, HomeBitmap}

\* `${bitmapNumber}-${transactions.length}`, lines 192 and 1346
cacheKeyOf(bitmapNumber, txList) == <<bitmapNumber, Len(txList)>>

\* a mutant of cacheHas: the key is never found
cacheHasNever(key) == FALSE

\* global3DCache.has(cacheKey), line 195
cacheHas(key) == key \in DOMAIN global3DCache

\* what the decoder finds in the image of a txList
imageOf(txList) == generateVisualization(txList).image

InitCache ==
    /\ AppIdle
    /\ global3DCache = EmptyMap
    /\ chain \in [Bitmaps -> SeqsUpTo({0, 10^7}, MaxBlockTx)]
    /\ scenes = <<>>
    /\ LayoutIdle
    /\ ClassifyIdle
    /\ RenderIdle
    /\ routine = "viewer"
    /\ canvas = NoCanvas
    /\ args = [imageDataUrl |-> FALSE, txList |-> "null"]
    /\ promise = NoPromise
    /\ warnings = <<>>
    /\ capHits = NoCapHits
    /\ discovered = <<>>
    /\ loop = NoLoop
    /\ limits = RenderLimits

\* initScene up to its await (lines 143-201), for the lookup of the bitmap b
InitScene ==
    /\ Len(scenes) < MaxScenes
    /\ \E b \in Bitmaps :
          LET key == cacheKeyOf(b, chain[b])
          IN IF cacheHas(key)
             THEN scenes' = Append(scenes,
                      [kind |-> "viewer", bitmapNumber |-> b, key |-> key, pc |-> "done",
                       squares |-> global3DCache[key], parsed |-> FALSE, hit |-> TRUE])
             ELSE scenes' = Append(scenes,
                      [kind |-> "viewer", bitmapNumber |-> b, key |-> key,
                       pc |-> IF Len(chain[b]) = 0 THEN "resolved" ELSE "pending",
                       squares |-> <<>>, parsed |-> TRUE, hit |-> FALSE])
    /\ UNCHANGED <<global3DCache, chain, appVars, layoutVars, classifyVars, parseVars, renderVars>>

\* preload3DData(267651) from getBlockData's answer up to its await (lines
\* 1249-1345); it is called once, by the mount effect
Preload3DData ==
    /\ Len(scenes) < MaxScenes
    /\ \A t \in 1..Len(scenes) : scenes[t].kind # "preload"
    /\ Len(chain[HomeBitmap]) > 0
    /\ scenes' = Append(scenes,
           [kind |-> "preload", bitmapNumber |-> HomeBitmap,
            key |-> cacheKeyOf(HomeBitmap, chain[HomeBitmap]), pc |-> "pending",
            squares |-> <<>>, parsed |-> TRUE, hit |-> FALSE])
    /\ UNCHANGED <<global3DCache, chain, appVars, layoutVars, classifyVars, parseVars, renderVars>>

\* a mutant of storeSquares: the squares are stored only under a key that
\* has no entry yet
storeSquaresIfAbsent(t, squares) ==
    /\ global3DCache' = IF scenes[t].key \in DOMAIN global3DCache THEN global3DCache
                        ELSE SetKey(global3DCache, scenes[t].key, squares)
    /\ scenes' = [scenes EXCEPT ![t].pc = "done", ![t].squares = squares]
    /\ UNCHANGED <<chain, appVars, layoutVars, classifyVars, parseVars, renderVars>>

\* the run t goes on after its await with the squares of the promise:
\* global3DCache.set(cacheKey, squares), lines 202 and 1347
storeSquares(t, squares) ==
    /\ global3DCache' = SetKey(global3DCache, scenes[t].key, squares)
    /\ scenes' = [scenes EXCEPT ![t].pc = "done", ![t].squares = squares]
    /\ UNCHANGED <<chain, appVars, layoutVars, classifyVars, parseVars, renderVars>>

\* img.onload of the run t, and the run going on
SceneOnLoad ==
    \E t \in 1..Len(scenes) :
        /\ scenes[t].pc = "pending"
        /\ \E image \in {imageOf(chain[scenes[t].bitmapNumber])} :
              \E sc \in {onloadScan(scenes[t].kind, image)} : storeSquares(t, sc.squares)

\* img.onerror of the run t, and the run going on
SceneOnError ==
    \E t \in 1..Len(scenes) :
        /\ scenes[t].pc = "pending"
        /\ storeSquares(t, <<>>)

\* the run t going on after a promise that was resolved at the call (line 42)
SceneResume ==
    \E t \in 1..Len(scenes) :
        /\ scenes[t].pc = "resolved"
        /\ storeSquares(t, <<>>)

NextCache == InitScene \/ Preload3DData \/ SceneOnLoad \/ SceneOnError \/ SceneResume

SpecCache == InitCache /\ [][NextCache]_vars


\* a run was started in this step
RunStarted == Len(scenes') = Len(scenes) + 1

NewRun == scenes'[Len(scenes')]

\* the run t went on after its await in this step
WentOn(t) == scenes[t].pc # "done" /\ scenes'[t].pc = "done"

\* C13: a scene initialisation that finds its key in global3DCache uses the
\* stored sequence, does not run the reconstruction and leaves the cache as
\* it is; one that does not find its key runs the reconstruction and, when
\* it goes on, stores the result under that key.
C13_CacheHit ==
    [][/\ (RunStarted /\ NewRun.kind = "viewer") =>
             /\ NewRun.key = cacheKeyOf(NewRun.bitmapNumber, chain[NewRun.bitmapNumber])
             /\ IF NewRun.key \in DOMAIN global3DCache
                THEN /\ NewRun.hit /\ ~NewRun.parsed /\ NewRun.pc = "done"
                     /\ NewRun.squares = global3DCache[NewRun.key]
                     /\ global3DCache' = global3DCache
                ELSE /\ ~NewRun.hit /\ NewRun.parsed /\ NewRun.pc # "done"
       /\ \A t \in 1..Len(scenes) :
             (scenes[t].kind = "viewer" /\ WentOn(t)) =>
                 /\ scenes[t].parsed
                 /\ scenes[t].key \in DOMAIN global3DCache'
                 /\ global3DCache'[scenes[t].key] = scenes'[t].squares]_vars

\* C13 witness: a scene initialisation that missed, parsed and stored squares,
\* and a later one of the same key that hit and took them without parsing
C13_Witness ==
    \E t, u \in 1..Len(scenes) :
        /\ t < u
        /\ scenes[t].kind = "viewer" /\ scenes[u].kind = "viewer"
        /\ scenes[t].key = scenes[u].key
        /\ scenes[t].parsed /\ scenes[t].pc = "done" /\ scenes[t].squares # <<>>
        /\ scenes[u].hit /\ ~scenes[u].parsed /\ scenes[u].squares = scenes[t].squares

\* C14 as stated: once global3DCache holds an entry for a key, no step of a
\* scene initialisation or of preload3DData removes the entry or replaces
\* its value.
C14_CacheStable ==
    [][\A key \in DOMAIN global3DCache :
           /\ key \in DOMAIN global3DCache'
           /\ global3DCache'[key] = global3DCache[key]]_vars


-----------------------------------------------------------------------------
(* The failures of the reconstruction.                                       *)

\* C15: in both copies, a call without an image URL or with a missing or
\* empty item list is resolved with the empty sequence at the call, and a
\* call whose image fails to decode is resolved with the empty sequence by
\* onerror; the promise is pending or resolved, never rejected.
C15_FailureIsEmpty ==
    /\ promise.state \in {"none", "pending", "resolved"}
    /\ (promise.state # "none" /\ (~args.imageDataUrl \/ args.txList # "items")) =>
           promise = [state |-> "resolved", value |-> <<>>, by |-> "call"]
    /\ promise.by = "call" => (~args.imageDataUrl \/ args.txList # "items")
    /\ promise.by = "onerror" => (promise.state = "resolved" /\ promise.value = <<>>)
    /\ promise.state = "pending" => promise.by = "none"

\* C15 witness: a call with an image URL and items, whose image failed to decode
C15_Witness ==
    /\ routine = "preload"
    /\ args.imageDataUrl /\ args.txList = "items"
    /\ promise = [state |-> "resolved", value |-> <<>>, by |-> "onerror"]


-----------------------------------------------------------------------------
(* The items, the replay of a layout, and the slots of the rows.             *)

\* C16 as stated: building a layout writes no field of an item: no item of
\* the list carries a gridSquare field that place has set.
C16_ItemsReadOnly == gridSquare = <<>>

SlotColumns(L, ref) ==
    {c \in L.heap[ref].x..(L.heap[ref].x + L.heap[ref].r - 1) : c < L.width}

\* the columns of the row y that no placed tile covers
FreeColumns(L, sqs, y) == {c \in 0..(L.width - 1) : <<c, y>> \notin Occupied(sqs)}

SlotsDisjoint(L, row) ==
    \A i, j \in 1..Len(row.slots) :
        i # j => SlotColumns(L, row.slots[i]) \cap SlotColumns(L, row.slots[j]) = {}

SlotsCovered(L, row) == UNION {SlotColumns(L, row.slots[i]) : i \in 1..Len(row.slots)}

\* A layout wide enough for a strip of remaining width beside a tall tile:
\* the block width generateVisualization computes for tiers 3 and 6 is 7.
WideWidth == 7

InitWide ==
    /\ AppIdle
    /\ layout = MondrianLayout(WideWidth)
    /\ positions = <<>>
    /\ calls = <<>>
    /\ gridSquare = <<>>
    /\ ClassifyIdle
    /\ ParseIdle
    /\ RenderIdle
    /\ CacheIdle

\* at most WideItems calls of place on the wide layout
WideItems == 3

PlaceWide == Len(calls) < WideItems /\ PlaceTile

NextWide == PlaceWide

SpecWide == InitWide /\ [][NextWide]_vars

\* C18 as stated: after every placement, in every row the column ranges of
\* the row's slots are pairwise disjoint, their union is exactly the set of
\* the row's columns that no placed tile occupies, and no slot's range holds
\* an occupied column.
C18_SlotCover ==
    \A ri \in 1..Len(layout.rows) :
        LET row == layout.rows[ri]
        IN /\ SlotsDisjoint(layout, row)
           /\ SlotsCovered(layout, row) = FreeColumns(layout, positions, row.y)

-----------------------------------------------------------------------------
(* The pixel cap of one flood fill.                                          *)

\* the components whose first pixel the scan has started a fill at
Reached(cv) == {C \in Components(cv) : \E k \in 1..Len(discovered) : discovered[k] = FirstPixel(cv, C)}

\* the component a discovery pixel lies in
ComponentOf(cv, c) == Closure4({c}, TilePixels(cv))

\* C19 as stated: a fill is cut short exactly when the matching pixels it has
\* marked for its component are more than the cap: some fill is cut exactly
\* when the scan has reached a component of more pixels than the cap, so with
\* only components of at most cap pixels every fill is complete and the
\* squares are the components; and a fill that is cut still emits its square,
\* with a box of pixels of the component that holds the discovery pixel.
C19_PixelCap ==
    Loaded =>
        /\ capHits.pixels > 0 <=> \E C \in Reached(canvas) : Cardinality(C) > limits.pixels
        /\ (\A C \in Components(canvas) : Cardinality(C) <= limits.pixels) =>
              \A k \in 1..Len(promise.value) :
                  promise.value[k] = SquareOf(canvas, ComponentOf(canvas, discovered[k]), k)
        /\ Len(promise.value) = Len(discovered)
        /\ \A k \in 1..Len(promise.value) :
              LET whole == BoxOf(canvas, SquareOf(canvas, ComponentOf(canvas, discovered[k]), k))
                  box == BoxOf(canvas, promise.value[k])
              IN /\ InBox(box, discovered[k])
                 /\ whole.minX <= box.minX /\ box.maxX <= whole.maxX
                 /\ whole.minY <= box.minY /\ box.maxY <= whole.maxY

\* the coordinates beside c that lie on the canvas and do not match
PlainBeside(cv, c) ==
    {d \in {<<c[1] + 1, c[2]>>, <<c[1] - 1, c[2]>>, <<c[1], c[2] + 1>>, <<c[1], c[2] - 1>>} :
        ~outOfCanvas(cv, d[1], d[2]) /\ d \notin TilePixels(cv)}

\* what pixelsInThisSquare counts in a fill of the whole component C: every
\* pixel of C once, and every non-matching pixel of the canvas once for each
\* pixel of C it lies beside
RECURSIVE Counted(_, _)
Counted(cv, C) ==
    IF C = {} THEN 0
    ELSE LET c == CHOOSE c \in C : TRUE
         IN 1 + Cardinality(PlainBeside(cv, c)) + Counted(cv, C \ {c})

\* C19 amended: the counter of a fill counts the pixels it takes off the stack
\* that lie on the canvas and are not marked, matching or not.  Some fill is
\* cut exactly when the scan has reached a component whose count (its pixels
\* plus its non-matching neighbours on the canvas, once per side) is more than
\* the cap; a component of more pixels than the cap is always cut; a component
\* whose count is at most the cap is filled completely and its square is its
\* exact bounding box; and every fill, cut or not, emits its square, with a
\* box inside the component's box that holds the discovery pixel.
C19_CountedCap ==
    Loaded =>
        /\ capHits.pixels > 0 <=> \E C \in Reached(canvas) : Counted(canvas, C) > limits.pixels
        /\ (\E C \in Reached(canvas) : Cardinality(C) > limits.pixels) => capHits.pixels > 0
        /\ Len(promise.value) = Len(discovered)
        /\ \A k \in 1..Len(promise.value) :
              LET C == ComponentOf(canvas, discovered[k])
                  whole == BoxOf(canvas, SquareOf(canvas, C, k))
                  box == BoxOf(canvas, promise.value[k])
              IN /\ Counted(canvas, C) <= limits.pixels =>
                       promise.value[k] = SquareOf(canvas, C, k)
                 /\ InBox(box, discovered[k])
                 /\ whole.minX <= box.minX /\ box.maxX <= whole.maxX
                 /\ whole.minY <= box.minY /\ box.maxY <= whole.maxY

\* C19 witness: a picture whose components all have at most cap pixels, with
\* a fill cut short all the same and a square emitted for the part it left
C19_Witness ==
    /\ Loaded
    /\ capHits.pixels > 0
    /\ \A C \in Components(canvas) : Cardinality(C) <= limits.pixels
    /\ Len(promise.value) > Cardinality(Components(canvas))
    /\ capHits.squares = 0

-----------------------------------------------------------------------------
(* The squares of a reconstruction that no cap has touched.                  *)

\* C20: when neither cap triggers, the squares are the maximal 4-connected
\* sets of matching pixels, one square per set and in the scan order of the
\* sets' first pixels; the width and the depth of a square are
\* maxX - minX + 1 and maxY - minY + 1 of its set's exact bounding box, and
\* the box lies inside the buffer.
C20_ComponentExtraction ==
    (Loaded /\ capHits.pixels = 0 /\ capHits.squares = 0) =>
        /\ Len(promise.value) = Cardinality(Components(canvas))
        /\ \A k \in 1..Len(promise.value) :
              LET C == ComponentAt(canvas, k)
                  box == BoxOf(canvas, promise.value[k])
              IN /\ promise.value[k] = SquareOf(canvas, C, k)
                 /\ \A c \in C : InBox(box, c)
                 /\ \E c \in C : c[1] = box.minX
                 /\ \E c \in C : c[1] = box.maxX
                 /\ \E c \in C : c[2] = box.minY
                 /\ \E c \in C : c[2] = box.maxY
                 /\ promise.value[k].width = box.maxX - box.minX + 1
                 /\ promise.value[k].depth = box.maxY - box.minY + 1
                 /\ 0 <= box.minX /\ box.maxX < canvas.width
                 /\ 0 <= box.minY /\ box.maxY < canvas.height

\* C20 witness: a component found with no cap triggered that reaches to the
\* left of and below the pixel it was discovered at, in a bounding box of
\* more pixels than the component has
C20_Witness ==
    /\ Loaded /\ capHits.pixels = 0 /\ capHits.squares = 0
    /\ \E k \in 1..Len(promise.value) :
          /\ promise.value[k].width >= 2 /\ promise.value[k].depth >= 2
          /\ BoxOf(canvas, promise.value[k]).minX < discovered[k][1]
          /\ Cardinality(ComponentAt(canvas, k)) < promise.value[k].width * promise.value[k].depth

-----------------------------------------------------------------------------
(* Runs of one key that overlap.                                             *)

\* C21: the cache gives no single flight per key: a run that starts while its
\* key has no entry runs the reconstruction, whether or not other runs of the
\* same key are in flight, the preload runs it in every case, and every run
\* that ran the reconstruction writes the cache under its key when it goes on,
\* whether or not the key has an entry by then.
C21_NoSingleFlight ==
    [][/\ (RunStarted /\ (NewRun.kind = "preload" \/ NewRun.key \notin DOMAIN global3DCache)) =>
             /\ NewRun.parsed /\ ~NewRun.hit /\ NewRun.pc # "done"
       /\ \A t \in 1..Len(scenes) :
             WentOn(t) =>
                 /\ scenes[t].parsed
                 /\ global3DCache' = SetKey(global3DCache, scenes[t].key, scenes'[t].squares)]_vars

\* C21 witness: two runs of one key, a scene initialisation and the preload,
\* that both ran the reconstruction and have both stored, the second over the
\* entry of the first
C21_Witness ==
    \E t, u \in 1..Len(scenes) :
        /\ t # u
        /\ scenes[t].kind = "viewer" /\ scenes[u].kind = "preload"
        /\ scenes[t].key = scenes[u].key
        /\ scenes[t].parsed /\ scenes[u].parsed
        /\ ~scenes[t].hit /\ ~scenes[u].hit
        /\ scenes[t].pc = "done" /\ scenes[u].pc = "done"
        /\ scenes[t].squares # scenes[u].squares

-----------------------------------------------------------------------------
(* The index of a square and the index of the item that was painted.         *)

\* the rectangle a is met by the scan before the rectangle b: its top row is
\* higher, or it is the same row and a is to the left
MetBefore(a, b) == a.y0 < b.y0 \/ (a.y0 = b.y0 /\ a.x0 < b.x0)

\* the position in the output of the square of the item i
RankOf(i) ==
    1 + Cardinality({j \in 1..Len(positions) : MetBefore(PaintedRects[j], PaintedRects[i])})

\* C22: the index of a square is its rank in the scan, not the index of its
\* item: when no cap triggers, the square of the item i is at the output
\* position of the rank of its rectangle in the row-major order of the
\* rectangles' top-left pixels and has that position (counted from 0) as
\* txIndex, so txIndex is the item's index only for the items whose rank is
\* their index.
C22_IndexIsScanRank ==
    (Loaded /\ capHits.pixels = 0 /\ capHits.squares = 0) =>
        /\ Len(promise.value) = Len(positions)
        /\ \A i \in 1..Len(positions) :
              /\ BoxOf(canvas, promise.value[RankOf(i)]) = RectBox(PaintedRects[i])
              /\ promise.value[RankOf(i)].txIndex = RankOf(i) - 1

\* C22 witness: items of two sizes, placed, painted and reconstructed with no
\* cap triggered, and a square whose output position is not the position of
\* the item it was painted for
C22_Witness ==
    /\ Loaded /\ capHits.pixels = 0 /\ capHits.squares = 0
    /\ \E i, j \in 1..Len(positions) : positions[i].r # positions[j].r
    /\ \E k \in 1..Len(positions) :
          /\ k <= Len(promise.value)
          /\ BoxOf(canvas, promise.value[k]) # RectBox(PaintedRects[k])
          /\ RankOf(k) # k

-----------------------------------------------------------------------------
(* The free square of a slot.                                                *)

\* the cells of the r x r square whose top-left cell is the slot's (x, y)
SlotSquare(L, ref) ==
    (L.heap[ref].x..(L.heap[ref].x + L.heap[ref].r - 1))
        \X (L.heap[ref].y..(L.heap[ref].y + L.heap[ref].r - 1))

\* C23: after any sequence of place calls with 1 <= size <= width, every slot
\* of every row has r >= 1, x >= 0 and x + r <= width, no placed tile covers a
\* cell of the slot's r x r square, and every placed tile lies within the
\* columns 0..width-1.
C23_FreeSquare ==
    /\ \A ri \in 1..Len(layout.rows) :
          \A si \in 1..Len(layout.rows[ri].slots) :
              LET ref == layout.rows[ri].slots[si]
                  slot == layout.heap[ref]
              IN /\ slot.r >= 1 /\ slot.x >= 0 /\ slot.x + slot.r <= layout.width
                 /\ slot.y = layout.rows[ri].y
                 /\ SlotSquare(layout, ref) \cap Occupied(positions) = {}
    /\ \A k \in 1..Len(positions) :
          positions[k].x >= 0 /\ positions[k].x + positions[k].r <= layout.width

\* C23 witness: a row that holds a tile and two slots, one of them of a side
\* of two or more whose square reaches into the rows below
C23_Witness ==
    \E ri \in 1..Len(layout.rows) :
        /\ Len(layout.rows[ri].slots) >= 2
        /\ \E k \in 1..Len(positions) : positions[k].y = layout.rows[ri].y
        /\ \E si \in 1..Len(layout.rows[ri].slots) :
              layout.heap[layout.rows[ri].slots[si]].r >= 2

-----------------------------------------------------------------------------
(* A reconstruction that failed to decode, and the cache.                    *)

\* the run t has gone on with the empty sequence of a decode failure: it
\* started the reconstruction of a non-empty list, whose painted image holds
\* a tile, and took no square from it
StoredFailure(t) ==
    /\ scenes[t].parsed /\ scenes[t].pc = "done"
    /\ Len(chain[scenes[t].bitmapNumber]) > 0
    /\ scenes[t].squares = <<>>

\* C24 as stated: the empty sequence of a decode failure is stored under the
\* key like a result, and every later scene initialisation of the key finds
\* it, runs no reconstruction and takes the empty sequence: from the store on
\* the key has an entry, the entry is the empty sequence, and a run of the
\* key that was started after the store is a hit with no square.
C24_FailedDecodeCached ==
    \A t \in 1..Len(scenes) :
        StoredFailure(t) =>
            /\ scenes[t].key \in DOMAIN global3DCache
            /\ global3DCache[scenes[t].key] = <<>>
            /\ \A u \in (t + 1)..Len(scenes) :
                  (scenes[u].kind = "viewer" /\ scenes[u].key = scenes[t].key /\ scenes[u].hit) =>
                      ~scenes[u].parsed /\ scenes[u].squares = <<>>

-----------------------------------------------------------------------------
(* The two copies of parseMondrianFromImage.                                 *)

\* what the two copies find in the decoded picture
ByViewer == scanViewer(canvas, 0, startScan)
ByPreload == scanPreload(canvas, 0, startScan)

\* C25: on every picture the copy of the viewer and the copy of preload3DData
\* resolve with the same sequence of squares, found at the same pixels and
\* with the same fills cut and the same stop at the square cap; the promise
\* of the copy that ran holds that sequence.  A call that is resolved at once
\* or by onerror holds the empty sequence in both.
C25_CopiesAgree ==
    /\ Loaded =>
          /\ ByViewer.squares = ByPreload.squares
          /\ ByViewer.starts = ByPreload.starts
          /\ ByViewer.cuts = ByPreload.cuts
          /\ ByViewer.stoppedAt = ByPreload.stoppedAt
          /\ promise.value = ByViewer.squares
          /\ promise.value = ByPreload.squares
    /\ (promise.state = "resolved" /\ promise.by # "onload") => promise.value = <<>>

\* C25 witness: a picture of two or more squares with a fill cut short,
\* decoded by the copy of the preload; the viewer's copy warns of the cut and
\* the preload's does not
C25_Witness ==
    /\ Loaded
    /\ routine = "preload"
    /\ Len(promise.value) >= 2
    /\ capHits.pixels > 0
    /\ ByViewer.warnings # ByPreload.warnings
    /\ promise.value = ByViewer.squares

-----------------------------------------------------------------------------
(* img.onload of the viewer followed pass by pass: the two for loops of      *)
(* lines 57-58 and the while loop of lines 81-111.  loop.k is the pixel      *)
(* number y * width + x of the for loops, loop.sc the visited set and the    *)
(* squares, loop.fill the stack, the box and the counter of the fill that    *)
(* runs, and loop.passes the passes of its while loop so far.                *)

LoopPixels == 7    \* the pictures followed pass by pass have at most LoopPixels pixels

LoopShapes == {s \in (1..LoopPixels) \X (1..LoopPixels) : s[1] * s[2] <= LoopPixels}

\* lines 50-56: the image is drawn, visited and squares are empty
InitLoop ==
    /\ AppIdle
    /\ routine = "viewer"
    /\ args = [imageDataUrl |-> TRUE, txList |-> "items"]
    /\ \E s \in LoopShapes : canvas \in Pictures(s[1], s[2])
    /\ promise = [state |-> "pending", value |-> <<>>, by |-> "none"]
    /\ warnings = <<>>
    /\ capHits = NoCapHits
    /\ discovered = <<>>
    /\ limits = ImageLimits
    /\ loop = [at |-> "for", k |-> 0, sc |-> startScan, fill |-> startFill(0, 0), passes |-> 0]
    /\ LayoutIdle
    /\ ClassifyIdle
    /\ RenderIdle
    /\ CacheIdle

LoopX == loop.k % canvas.width
LoopY == loop.k \div canvas.width

\* lines 64-66: the pixel of the for loops starts a fill
StartsFill ==
    isTileColor(pixelAt(canvas, LoopX, LoopY)) /\ <<LoopX, LoopY>> \notin loop.sc.visited

\* resolve(squares), lines 70 and 134
resolveWith(sc) ==
    /\ promise' = [state |-> "resolved", value |-> sc.squares, by |-> "onload"]
    /\ warnings' = warnings \o sc.warnings
    /\ capHits' = [squares |-> IF sc.stoppedAt # <<>> THEN 1 ELSE 0,
                   pixels |-> sc.cuts,
                   stoppedAt |-> sc.stoppedAt]
    /\ discovered' = sc.starts

LoopFrame == UNCHANGED <<routine, canvas, args, limits, layoutVars, classifyVars, renderVars,
                         cacheVars, appVars>>

\* one pass of the for loops at a pixel that starts no fill
ForSkip ==
    /\ loop.at = "for" /\ loop.k < canvas.width * canvas.height
    /\ ~StartsFill
    /\ loop' = [loop EXCEPT !.k = @ + 1]
    /\ UNCHANGED <<promise, warnings, capHits, discovered>>
    /\ LoopFrame

\* lines 68-72: the warning, resolve and return at the square cap
ForStop ==
    /\ loop.at = "for" /\ loop.k < canvas.width * canvas.height
    /\ StartsFill /\ atSquareCap(loop.sc.squares)
    /\ \E sc \in {[loop.sc EXCEPT !.warnings = Append(@, "transaction limit reached"),
                                  !.stoppedAt = <<LoopX, LoopY>>]} :
          /\ loop' = [loop EXCEPT !.at = "resolved", !.sc = sc]
          /\ resolveWith(sc)
    /\ LoopFrame

\* lines 74-79: the box, the stack and the counter of a new fill
ForFill ==
    /\ loop.at = "for" /\ loop.k < canvas.width * canvas.height
    /\ StartsFill /\ ~atSquareCap(loop.sc.squares)
    /\ loop' = [loop EXCEPT !.at = "while", !.fill = startFill(LoopX, LoopY), !.passes = 0,
                            !.sc.starts = Append(@, <<LoopX, LoopY>>)]
    /\ UNCHANGED <<promise, warnings, capHits, discovered>>
    /\ LoopFrame

\* one pass of the while loop, lines 81-110
WhilePass ==
    /\ loop.at = "while" /\ loop.fill.stack # <<>> /\ ~loop.fill.cut
    /\ \E st \in {fillStepViewer(canvas, [fill |-> loop.fill, visited |-> loop.sc.visited])} :
          loop' = [loop EXCEPT !.fill = st.fill, !.sc.visited = st.visited, !.passes = @ + 1]
    /\ UNCHANGED <<promise, warnings, capHits, discovered>>
    /\ LoopFrame

\* lines 113-130: the while loop is left, the square is pushed
WhileEnd ==
    /\ loop.at = "while" /\ (loop.fill.stack = <<>> \/ loop.fill.cut)
    /\ loop' = [loop EXCEPT
                   !.at = "for", !.k = @ + 1,
                   !.sc.squares = Append(@, makeSquare(canvas, loop.fill, loop.sc.squares)),
                   !.sc.warnings = IF loop.fill.cut
                                   THEN Append(@, "Too many pixels in single square")
                                   ELSE @,
                   !.sc.cuts = IF loop.fill.cut THEN @ + 1 ELSE @]
    /\ UNCHANGED <<promise, warnings, capHits, discovered>>
    /\ LoopFrame

\* lines 133-135: the for loops are over, resolve(squares)
ForEnd ==
    /\ loop.at = "for" /\ loop.k = canvas.width * canvas.height
    /\ loop' = [loop EXCEPT !.at = "resolved"]
    /\ resolveWith(loop.sc)
    /\ LoopFrame

NextLoop == ForSkip \/ ForStop \/ ForFill \/ WhilePass \/ WhileEnd \/ ForEnd

\* onload is one callback: once it runs, it runs on
SpecLoop == InitLoop /\ [][NextLoop]_vars /\ WF_vars(NextLoop)

\* the matching pixels not yet marked, and the measure of the while loop: four
\* entries are still to be pushed for each of them, and the entries on the
\* stack are still to be popped
Unmarked == TilePixels(canvas) \ loop.sc.visited
Measure == 4 * Cardinality(Unmarked) + Len(loop.fill.stack)

\* a step that is one pass of the while loop
IsPass == loop.at = "while" /\ loop'.at = "while"

\* C26: on every picture the scan and every flood fill terminate: onload
\* resolves its promise, and a while loop that runs is left.  Every pass pops
\* one entry; a pass that marks a pixel marks one matching pixel of the canvas
\* that was not marked before and pushes exactly its four neighbours, and no
\* other pass pushes or marks anything, so the measure falls by one per pass;
\* the while loop is left with an empty stack or by the break of the cap, after
\* at most 4 * width * height + 1 passes; and the squares resolved are those
\* of the loops taken as a whole.
C26_Terminates ==
    /\ <>(loop.at = "resolved")
    /\ (loop.at = "while") ~> (loop.at = "for")
    /\ [][/\ IsPass =>
                /\ Measure' = Measure - 1
                /\ loop.sc.visited \subseteq loop'.sc.visited
                /\ LET top == loop.fill.stack[Len(loop.fill.stack)]
                       rest == SubSeq(loop.fill.stack, 1, Len(loop.fill.stack) - 1)
                   IN IF loop'.sc.visited # loop.sc.visited
                      THEN /\ top \in Unmarked
                           /\ loop'.sc.visited = loop.sc.visited \cup {top}
                           /\ loop'.fill.stack =
                                  rest \o << <<top[1] + 1, top[2]>>, <<top[1] - 1, top[2]>>,
                                             <<top[1], top[2] + 1>>, <<top[1], top[2] - 1>> >>
                      ELSE loop'.fill.stack = rest
          /\ (loop.at = "while" /\ loop'.at = "for") =>
                (loop.fill.stack = <<>> \/ loop.fill.cut)
          /\ (loop.at = "for" /\ loop'.at = "for") => loop'.k = loop.k + 1]_vars
    /\ [](loop.at = "while" => loop.passes <= 4 * canvas.width * canvas.height + 1)
    /\ [](loop.at = "resolved" =>
             /\ promise.state = "resolved"
             /\ promise.value = scanViewer(canvas, 0, startScan).squares)

\* C26 witness: onload has resolved after a fill that broke on the cap and a
\* fill whose stack emptied
C26_Witness ==
    /\ loop.at = "resolved"
    /\ promise.state = "resolved"
    /\ capHits.pixels = 1
    /\ Len(promise.value) >= 2

-----------------------------------------------------------------------------
(* handleLookup (lines 1192-1243) and fetchParcels (lines 1039-1152): the   *)
(* calls started by the mount effect, the Enter key, the Home button and    *)
(* the search button, each followed from await to await.                    *)

MaxLookups == 3   \* at most MaxLookups calls of handleLookup
MaxParcels == 1   \* a bitmap has at most MaxParcels parcel children

\* what the user has typed into the input (bitmapNumber)
Texts == {"0", "267651", "840000", ""}

NaN == [nan |-> TRUE, n |-> 0]
Num(n) == [nan |-> FALSE, n |-> n]

\* parseInt(bitmapNumber.trim(), 10), line 1200, on the texts above
parseInt10(text) ==
    CASE text = "0" -> Num(0)
      [] text = "267651" -> Num(HomeBitmap)
      [] text = "840000" -> Num(840000)
      [] OTHER -> NaN

\* the local blockData before getBlockData has answered
NoBlockData == [transactions |-> -1, txList |-> <<>>]

\* the object passed to setResult, lines 1220-1232
resultOf(num, blockData) ==
    [bitmapNumber |-> num, blockHeight |-> num, inscriptionId |-> <<"inscription", num>>,
     transactions |-> blockData.transactions, txList |-> blockData.txList]

\* parcelsList, line 1125: the children whose content is "<n>.<bitmapNumber>.bitmap"
parcelsListOf(bitmapNumber, n) ==
    [i \in 1..n |-> [childNumber |-> i, parcelName |-> <<i, bitmapNumber, "bitmap">>]]

InitLookup ==
    /\ AppIdle
    /\ chain \in [Bitmaps -> SeqsUpTo({0, 10^7}, MaxBlockTx)]
    /\ global3DCache = EmptyMap
    /\ scenes = <<>>
    /\ LayoutIdle
    /\ ClassifyIdle
    /\ RenderIdle
    /\ ParseIdle

LookupFrame ==
    UNCHANGED <<layoutVars, classifyVars, parseVars, cacheVars, wallet, connects,
                proxy, requests>>

\* handleLookup up to its first await, lines 1192-1215
handleLookup(num, pg) ==
    /\ Len(lookups) < MaxLookups
    /\ bitmapImage' = NoCanvas
    /\ LET cleared == [pg EXCEPT !.error = "", !.result = NoResult, !.parcels = <<>>]
           call == [num |-> num.n, at |-> "returned", blockData |-> NoBlockData,
                    parcelsList |-> <<>>]
       IN IF num.nan
          THEN /\ page' = [cleared EXCEPT !.error = "Please enter a valid number"]
               /\ lookups' = Append(lookups, call)
          ELSE IF num.n < 0 \/ num.n > 839999
          THEN /\ page' = [cleared EXCEPT
                               !.error = "Bitmap number must be between 0 and 839,999"]
               /\ lookups' = Append(lookups, call)
          ELSE /\ page' = [cleared EXCEPT !.isHomePage = (num.n = HomeBitmap),
                                          !.loading = TRUE]
               /\ lookups' = Append(lookups, [call EXCEPT !.at = "getBitmapSat"])
    /\ LookupFrame

\* the mount effect, lines 505-508
Mount ==
    /\ ~page.mounted
    /\ handleLookup(Num(HomeBitmap), [page EXCEPT !.mounted = TRUE])

\* onKeyPress with Enter, line 1437
EnterKey ==
    /\ page.mounted
    /\ \E text \in Texts : handleLookup(parseInt10(text), page)

\* the Home button, lines 1419-1429: rendered when !isHomePage && result
HomeButton ==
    /\ page.mounted
    /\ ~page.isHomePage
    /\ page.result # NoResult
    /\ handleLookup(Num(HomeBitmap), page)

\* the search button, lines 1441-1446: disabled while loading, and
\* setTimeout(() => handleLookup(), 100)
SearchButton ==
    /\ page.mounted
    /\ ~page.loading
    /\ page.timers = 0
    /\ Len(lookups) < MaxLookups
    /\ page' = [page EXCEPT !.timers = 1]
    /\ UNCHANGED <<lookups, bitmapImage>>
    /\ LookupFrame

\* the timer of the search button fires
SearchTimer ==
    /\ page.timers = 1
    /\ \E text \in Texts : handleLookup(parseInt10(text), [page EXCEPT !.timers = 0])

\* catch and finally of handleLookup, lines 1238-1242
caught(i) ==
    /\ page' = [page EXCEPT !.error = "An error occurred while fetching data",
                            !.loading = FALSE]
    /\ lookups' = [lookups EXCEPT ![i].at = "done"]
    /\ UNCHANGED bitmapImage

\* await getBitmapSat(num), line 1215: fillPage may throw
GotBitmapSat ==
    \E i \in 1..Len(lookups) :
       /\ lookups[i].at = "getBitmapSat"
       /\ \/ /\ lookups' = [lookups EXCEPT ![i].at = "getBitmapInscriptionId"]
             /\ UNCHANGED <<page, bitmapImage>>
          \/ caught(i)
       /\ LookupFrame

\* await getBitmapInscriptionId(num), line 1216: its fetch may throw
GotInscriptionId ==
    \E i \in 1..Len(lookups) :
       /\ lookups[i].at = "getBitmapInscriptionId"
       /\ \/ /\ lookups' = [lookups EXCEPT ![i].at = "getInscriptionOwner"]
             /\ UNCHANGED <<page, bitmapImage>>
          \/ caught(i)
       /\ LookupFrame

\* await getInscriptionOwner(inscriptionId), line 1217: it catches what it throws
GotOwner ==
    \E i \in 1..Len(lookups) :
       /\ lookups[i].at = "getInscriptionOwner"
       /\ lookups' = [lookups EXCEPT ![i].at = "getBlockData"]
       /\ UNCHANGED <<page, bitmapImage>>
       /\ LookupFrame

\* await getBlockData(num) has answered (the block, or the empty answer of
\* line 986), then setResult, setBitmapImage and fetchParcels up to its
\* await: lines 1219-1237 and 1039-1042
GotBlockData ==
    \E i \in 1..Len(lookups) :
       /\ lookups[i].at = "getBlockData"
       /\ \E txList \in {chain[lookups[i].num], <<>>} :
             LET blockData == [transactions |-> Len(txList), txList |-> txList]
             IN /\ page' = [page EXCEPT !.result = resultOf(lookups[i].num, blockData),
                                        !.loadingParcels = TRUE]
                /\ bitmapImage' = IF blockData.transactions > 0
                                  THEN CHOOSE img \in {imageOf(txList)} : TRUE
                                  ELSE bitmapImage
                /\ lookups' = [lookups EXCEPT ![i].at = "fetchParcels",
                                              ![i].blockData = blockData]
       /\ LookupFrame

\* fetchParcels after its awaits, lines 1043-1151: setParcels of the parcels
\* found, or of [] when there are no children or something threw
GotParcels ==
    \E i \in 1..Len(lookups) :
       /\ lookups[i].at = "fetchParcels"
       /\ \E n \in 0..MaxParcels :
             LET parcelsList == parcelsListOf(lookups[i].num, n)
             IN /\ page' = [page EXCEPT !.parcels = parcelsList, !.loadingParcels = FALSE]
                /\ lookups' = [lookups EXCEPT ![i].at = "finally",
                                              ![i].parcelsList = parcelsList]
       /\ UNCHANGED bitmapImage
       /\ LookupFrame

\* finally { setLoading(false) }, lines 1240-1242
LookupFinally ==
    \E i \in 1..Len(lookups) :
       /\ lookups[i].at = "finally"
       /\ page' = [page EXCEPT !.loading = FALSE]
       /\ lookups' = [lookups EXCEPT ![i].at = "done"]
       /\ UNCHANGED bitmapImage
       /\ LookupFrame

NextLookup ==
    \/ Mount \/ EnterKey \/ HomeButton \/ SearchButton \/ SearchTimer
    \/ GotBitmapSat \/ GotInscriptionId \/ GotOwner \/ GotBlockData \/ GotParcels
    \/ LookupFinally

SpecLookup == InitLookup /\ [][NextLookup]_vars

\* every call of handleLookup has finished and no timer is pending
AllFinished ==
    /\ lookups # <<>>
    /\ page.timers = 0
    /\ \A i \in 1..Len(lookups) : lookups[i].at \in {"done", "returned"}

\* the call started last
LastLookup == lookups[Len(lookups)]

\* C27 (Latest lookup wins): once at least two calls of handleLookup have been
\* started and all have finished, loading is false and the displayed result,
\* bitmapImage and parcels are the ones the call started last has set (null,
\* null and [] where it has set none)
C27_LatestWins ==
    (AllFinished /\ Len(lookups) >= 2) =>
        /\ page.loading = FALSE
        /\ page.result = IF LastLookup.blockData = NoBlockData THEN NoResult
                         ELSE resultOf(LastLookup.num, LastLookup.blockData)
        /\ bitmapImage = IF LastLookup.blockData.transactions > 0
                         THEN imageOf(LastLookup.blockData.txList) ELSE NoCanvas
        /\ page.parcels = LastLookup.parcelsList

-----------------------------------------------------------------------------
(* The wallet functions: connectXverseWallet, connectUnisatWallet (lines    *)
(* 510-572), connectCardanoWallet (574-606) and submitLinkage (608-642),    *)
(* each connect attempt followed from await to await.                       *)

MaxConnects == 3   \* at most MaxConnects connect attempts
MaxLinkages == 2   \* at most MaxLinkages linkages are stored

\* the addresses the wallets may report
BtcAddresses == {"bc1a", "bc1b"}
AdaAddresses == {"addr1a"}

BtcWallets == {"xverse", "unisat"}
CardanoWallets == {"nami"}

\* what a wallet may return as the signature: a signature, or nothing
SignatureTexts == {"sig", ""}

InitWallet ==
    /\ AppIdle
    /\ CacheIdle
    /\ LayoutIdle
    /\ ClassifyIdle
    /\ RenderIdle
    /\ ParseIdle

WalletFrame ==
    UNCHANGED <<layoutVars, classifyVars, parseVars, renderVars, cacheVars, page, lookups,
                proxy, requests>>

\* !btcSignature || !adaSignature, line 613, negated
bothVerifiedAlways(w) == TRUE

bothVerified(w) == w.btcSignature.text # "" /\ w.adaSignature.text # ""

\* a connect function up to its first await: lines 511-518, 545-552, 575-582
ConnectStart ==
    /\ Len(connects) < MaxConnects
    /\ \E walletName \in BtcWallets \cup CardanoWallets, installed \in BOOLEAN :
          LET cleared == IF walletName \in BtcWallets
                         THEN [wallet EXCEPT !.walletError = "", !.btcSignature = NoSignature]
                         ELSE [wallet EXCEPT !.walletError = "", !.adaSignature = NoSignature]
              attempt == [walletName |-> walletName, addr |-> "",
                          at |-> IF ~installed THEN "done"
                                 ELSE IF walletName \in BtcWallets THEN "accounts"
                                 ELSE "enable"]
          IN /\ wallet' = IF installed THEN cleared
                          ELSE [cleared EXCEPT !.walletError = "not installed"]
             /\ connects' = Append(connects, attempt)
    /\ WalletFrame

\* the outer catch: lines 539-541, 569-571, 603-605
connectFailed(i) ==
    /\ wallet' = [wallet EXCEPT !.walletError = "Failed to connect"]
    /\ connects' = [connects EXCEPT ![i].at = "done"]

\* await wallet.enable(), line 582
Enabled ==
    \E i \in 1..Len(connects) :
       /\ connects[i].at = "enable"
       /\ \/ /\ connects' = [connects EXCEPT ![i].at = "accounts"]
             /\ UNCHANGED wallet
          \/ connectFailed(i)
       /\ WalletFrame

\* the accounts have come: lines 518-523, 552-557, 583-589 (no account: the
\* function ends; one account: the signature is requested)
GotAccounts ==
    \E i \in 1..Len(connects) :
       /\ connects[i].at = "accounts"
       /\ \/ \E addr \in IF connects[i].walletName \in BtcWallets
                          THEN BtcAddresses ELSE AdaAddresses :
                /\ connects' = [connects EXCEPT ![i].at = "sign", ![i].addr = addr]
                /\ UNCHANGED wallet
          \/ /\ connects' = [connects EXCEPT ![i].at = "done"]
             /\ UNCHANGED wallet
          \/ connectFailed(i)
       /\ WalletFrame

\* the signature request has been answered: lines 524-537, 558-567, 591-601
Signed ==
    \E i \in 1..Len(connects) :
       /\ connects[i].at = "sign"
       /\ connects' = [connects EXCEPT ![i].at = "done"]
       /\ \/ \E text \in SignatureTexts :
                LET signature == [text |-> text, attempt |-> i, address |-> connects[i].addr]
                IN wallet' = IF connects[i].walletName \in BtcWallets
                             THEN [wallet EXCEPT !.btcAddress = connects[i].addr,
                                                 !.btcWallet = connects[i].walletName,
                                                 !.btcSignature = signature,
                                                 !.btcBy = i]
                             ELSE [wallet EXCEPT !.adaAddress = connects[i].addr,
                                                 !.cardanoWallet = connects[i].walletName,
                                                 !.adaSignature = signature,
                                                 !.adaBy = i]
          \/ wallet' = [wallet EXCEPT !.walletError =
                                          "Signature rejected - verification required"]
       /\ WalletFrame

\* newLink, lines 617-627, with the attempts that set its two addresses
newLinkOf(w) ==
    [btcAddress |-> w.btcAddress, adaAddress |-> w.adaAddress, btcWallet |-> w.btcWallet,
     cardanoWallet |-> w.cardanoWallet, btcSignature |-> w.btcSignature,
     adaSignature |-> w.adaSignature, verified |-> TRUE,
     btcBy |-> w.btcBy, adaBy |-> w.adaBy]

\* submitLinkage, lines 608-642
SubmitLinkage ==
    /\ Len(wallet.linkages) < MaxLinkages
    /\ wallet' =
          IF wallet.btcAddress = "" \/ wallet.adaAddress = ""
          THEN [wallet EXCEPT !.walletError = "Connect both wallets"]
          ELSE IF ~bothVerified(wallet)
          THEN [wallet EXCEPT !.walletError =
                                  "Both wallets must be verified with signatures"]
          ELSE [wallet EXCEPT !.linkages = Append(@, newLinkOf(wallet)),
                              !.timers = @ + 1]
    /\ UNCHANGED connects
    /\ WalletFrame

\* the timer of submitLinkage fires, lines 632-641
SubmitTimer ==
    /\ wallet.timers > 0
    /\ wallet' = [wallet EXCEPT !.btcAddress = "", !.adaAddress = "", !.btcWallet = "",
                                !.cardanoWallet = "", !.btcSignature = NoSignature,
                                !.adaSignature = NoSignature, !.timers = @ - 1,
                                !.btcBy = 0, !.adaBy = 0]
    /\ UNCHANGED connects
    /\ WalletFrame

NextWallet ==
    ConnectStart \/ Enabled \/ GotAccounts \/ Signed \/ SubmitLinkage \/ SubmitTimer

SpecWallet == InitWallet /\ [][NextWallet]_vars

\* the signature goes with the address: it is there, and the attempt that
\* obtained it is the one that set the address, for that address
SignedBy(address, signature, by) ==
    /\ address # ""
    /\ signature.text # ""
    /\ signature.attempt = by
    /\ signature.address = address

\* C28 (Linkages are always signed): every stored linkage has a non-empty
\* btcAddress, adaAddress, btcSignature and adaSignature, and each of its
\* signatures was obtained by the connect attempt that set the address stored
\* with it
C28_LinkagesSigned ==
    \A k \in 1..Len(wallet.linkages) :
       LET link == wallet.linkages[k]
       IN /\ SignedBy(link.btcAddress, link.btcSignature, link.btcBy)
          /\ SignedBy(link.adaAddress, link.adaSignature, link.adaBy)

\* C28 witness: a linkage is stored after a rejected signature and a switch of
\* the Bitcoin wallet
C28_Witness ==
    /\ Len(wallet.linkages) = 1
    /\ Len(connects) = MaxConnects
    /\ \E i, j \in 1..Len(connects) :
          /\ i < j
          /\ connects[i].walletName = "xverse"
          /\ connects[j].walletName = "unisat"
          /\ wallet.linkages[1].btcBy = j
    /\ wallet.walletError = "Signature rejected - verification required"

-----------------------------------------------------------------------------
(* The API route (part_001): GET with its module-level cache, each call     *)
(* followed from await to await, several calls in flight, the clock moving. *)

CACHE_DURATION == 3600000   \* 60 * 60 * 1000, line 2

MaxRequests == 3   \* at most MaxRequests calls of GET
MaxTicks == 2      \* the clock moves at most MaxTicks times

\* searchParams.get('path'): null or '' when there is none
Paths == {"", "/r/sat", "/content"}

\* what ordinals.com sends as the body, and as its Content-Type (none: "")
Bodies == {"body"}
ContentTypes == {""}

\* by how much the clock moves at once, in milliseconds
ClockSteps == {1, CACHE_DURATION - 1}

InitProxy ==
    /\ AppIdle
    /\ CacheIdle
    /\ LayoutIdle
    /\ ClassifyIdle
    /\ RenderIdle
    /\ ParseIdle

ProxyFrame ==
    UNCHANGED <<layoutVars, classifyVars, parseVars, renderVars, cacheVars, page, lookups,
                wallet, connects>>

\* a mutant of fresh: an entry of exactly one hour is still served
freshAtOneHour(cached, now) == now - cached.timestamp <= CACHE_DURATION

\* Date.now() - cached.timestamp < CACHE_DURATION, line 15
fresh(cached, now) == now - cached.timestamp < CACHE_DURATION

\* a Response: its status, its body, its Content-Type
ResponseOf(status, data, contentType) ==
    [status |-> status, data |-> data, contentType |-> contentType]

NoResponse == ResponseOf(0, "", "")

\* Response.json({ error: ... }, { status })
ErrorResponse(status) == ResponseOf(status, "error", "application/json")

\* GET up to its first await or its early return, lines 4-22; for the record
\* a call keeps whether it was answered from the cache and how old the entry was
GetStart ==
    /\ Len(requests) < MaxRequests
    /\ \E path \in Paths :
          LET call == [path |-> path, at |-> "done", response |-> NoResponse,
                       fromCache |-> FALSE, age |-> 0, upstream |-> "none", data |-> ""]
              cached == proxy.cache[path]
          IN requests' = Append(requests,
                IF path = ""
                THEN [call EXCEPT !.response = ErrorResponse(400)]
                ELSE IF path \in DOMAIN proxy.cache /\ fresh(cached, proxy.now)
                THEN [call EXCEPT !.response = ResponseOf(200, cached.data,
                                                          cached.contentType),
                                  !.fromCache = TRUE,
                                  !.age = proxy.now - cached.timestamp]
                ELSE [call EXCEPT !.at = "fetch"])
    /\ UNCHANGED proxy
    /\ ProxyFrame

\* await fetch(...) has settled, lines 22-28 and 43-45: it threw, or the
\* response is not ok, or it is ok and its text is awaited
Fetched ==
    \E i \in 1..Len(requests) :
       /\ requests[i].at = "fetch"
       /\ \/ requests' = [requests EXCEPT ![i].at = "done", ![i].upstream = "threw",
                                          ![i].response = ErrorResponse(500)]
          \/ \E status \in {404, 500} :
                requests' = [requests EXCEPT ![i].at = "done", ![i].upstream = "not ok",
                                             ![i].response = ErrorResponse(status)]
          \/ requests' = [requests EXCEPT ![i].at = "text", ![i].upstream = "ok"]
       /\ UNCHANGED proxy
       /\ ProxyFrame

\* await response.text() has settled, lines 30-45: cache.set and the answer,
\* or the catch when reading the body threw
GotText ==
    \E i \in 1..Len(requests) :
       /\ requests[i].at = "text"
       /\ \/ /\ requests' = [requests EXCEPT ![i].at = "done", ![i].upstream = "threw",
                                             ![i].response = ErrorResponse(500)]
             /\ UNCHANGED proxy
          \/ \E data \in Bodies, header \in ContentTypes :
                LET contentType == IF header = "" THEN "text/plain" ELSE header
                IN /\ proxy' = [proxy EXCEPT !.cache =
                                    SetKey(@, requests[i].path,
                                           [data |-> data, contentType |-> contentType,
                                            timestamp |-> proxy.now])]
                   /\ requests' = [requests EXCEPT
                                      ![i].at = "done", ![i].data = data,
                                      ![i].response = ResponseOf(200, data, contentType)]
       /\ ProxyFrame

\* time passes
Tick ==
    /\ proxy.ticks < MaxTicks
    /\ \E step \in ClockSteps :
          proxy' = [proxy EXCEPT !.now = @ + step, !.ticks = @ + 1]
    /\ UNCHANGED requests
    /\ ProxyFrame

NextProxy == GetStart \/ Fetched \/ GotText \/ Tick

SpecProxy == InitProxy /\ [][NextProxy]_vars

\* the call i gets its response in this step
Answers(i) ==
    /\ i \in 1..Len(requests')
    /\ requests'[i].at = "done"
    /\ i \in 1..Len(requests) => requests[i].at # "done"

\* C29 (Proxy cache stores only successes and honours the TTL): the cache
\* changes only in the step in which a call whose upstream response was ok has
\* read its body, and then by that call's entry alone; a call answered for a
\* missing path, a non-ok upstream response or a throw leaves the cache as it
\* was; a call is answered from the cache, without a fetch, only by an entry
\* less than one hour old
C29_CacheOnlySuccess ==
    /\ [][/\ proxy'.cache # proxy.cache =>
                \E i \in 1..Len(requests) :
                   /\ requests[i].at = "text"
                   /\ requests[i].upstream = "ok"
                   /\ Answers(i)
                   /\ requests'[i].response.status = 200
                   /\ proxy'.cache =
                         SetKey(proxy.cache, requests[i].path,
                                [data |-> requests'[i].response.data,
                                 contentType |-> requests'[i].response.contentType,
                                 timestamp |-> proxy.now])
          /\ \A i \in 1..Len(requests') :
                (Answers(i) /\ (\/ requests'[i].path = ""
                                \/ requests'[i].upstream \in {"not ok", "threw"}))
                   => proxy'.cache = proxy.cache]_vars
    /\ [](\A i \in 1..Len(requests) :
             /\ requests[i].fromCache =>
                   /\ requests[i].upstream = "none"
                   /\ requests[i].age < CACHE_DURATION
             /\ (requests[i].at = "done" /\ requests[i].upstream = "none"
                 /\ requests[i].path # "") => requests[i].fromCache)

\* C29 witness: one call was answered from the cache by an entry one
\* millisecond short of an hour old, a later call for the same path fetched
\* again, and a call failed upstream with the entry left in place
C29_Witness ==
    \E i, j, k \in 1..Len(requests) :
       /\ requests[i].fromCache
       /\ requests[i].age = CACHE_DURATION - 1
       /\ j > i
       /\ requests[j].path = requests[i].path
       /\ requests[j].at = "done"
       /\ requests[j].upstream = "not ok"
       /\ requests[j].path \in DOMAIN proxy.cache
       /\ requests[k].upstream = "ok"
       /\ requests[k].at = "done"

-----------------------------------------------------------------------------
(* The two views of a row: its list of slots and its map.                   *)

\* the list is strictly ascending by x, and the map has an entry for x exactly
\* when a slot of column x is in the list, that slot
RowInSync(L, row) ==
    /\ \A i \in 1..(Len(row.slots) - 1) :
          L.heap[row.slots[i]].x < L.heap[row.slots[i + 1]].x
    /\ DOMAIN row.map = {L.heap[row.slots[i]].x : i \in 1..Len(row.slots)}
    /\ \A i \in 1..Len(row.slots) :
          /\ row.map[L.heap[row.slots[i]].x] = row.slots[i]
          /\ L.heap[row.slots[i]].y = row.y

InSync(L) == \A k \in 1..Len(L.rows) : RowInSync(L, L.rows[k])

\* C30 (Row dual view stays in sync): through every sequence of calls of
\* place, with the calls of fillSlot, addSlot and removeSlot they make, every
\* row's list is strictly ascending by x and agrees with the row's map, entry
\* for entry, and removeSlot was never given a slot that its row's list does
\* not hold; one more addSlot at any column of a row, or removeSlot of any
\* listed slot, keeps that row in sync
C30_RowsInSync ==
    /\ InSync(layout)
    /\ layout.missed = 0
    /\ \A k \in 1..Len(layout.rows) :
          /\ \A x \in 0..(layout.width - 1) :
                LET added == addSlot(layout, [x |-> x, y |-> layout.rows[k].y,
                                              r |-> layout.width]).L
                IN RowInSync(added, added.rows[k])
          /\ \A i \in 1..Len(layout.rows[k].slots) :
                LET after == removeSlot(layout, layout.rows[k].slots[i])
                IN RowInSync(after, after.rows[k]) /\ after.missed = 0

\* C30 witness: a row holds two slots, and a slot that was in a list has been
\* removed from it (the heap holds more slots than the lists)
C30_Witness ==
    /\ Len(calls) >= 3
    /\ \E k \in 1..Len(layout.rows) : Len(layout.rows[k].slots) >= 2
    /\ Len(layout.heap) >
          Cardinality(UNION {{layout.rows[k].slots[i] : i \in 1..Len(layout.rows[k].slots)} :
                                k \in 1..Len(layout.rows)})

=============================================================================
